---- MODULE Spec2Model ----
(***************************************************************************)
(* Model of the canonical core of darknessmipsv0.py: the Memory class      *)
(* (address folding, byte/half/word access, boot-stub loader) and the      *)
(* MIPSCPU class (reset, step, delay slot, multiply, divide).              *)
(*                                                                         *)
(* Representation.  TLC integers are 32-bit signed, so an unsigned 32-bit  *)
(* value of the program (a register, the pc, an address, an instruction    *)
(* word) is held as a pair <<h, l>> of its two 16-bit halves, standing for *)
(* h * 65536 + l.  Every operator below that is named after a Python       *)
(* expression computes that expression on this representation, including   *)
(* the "& 0xFFFFFFFF" the code applies to the unbounded Python result.     *)
(* A bytearray is held as the function from the indices of its non-zero    *)
(* bytes to those bytes; every other index of the array holds 0.           *)
(***************************************************************************)
EXTENDS Bags, Integers, Sequences, FiniteSets, TLC

(***************************************************************************)
(* 32-bit words as pairs of 16-bit halves                                  *)
(***************************************************************************)
W(h, l) == <<h, l>>
Zero32 == <<0, 0>>
One32 == <<0, 1>>

\* 2^n for 0 <= n <= 30
RECURSIVE Pow2(_)
Pow2(n) == IF n = 0 THEN 1 ELSE 2 * Pow2(n - 1)

\* x & y on values 0..65535
RECURSIVE And16(_, _)
And16(x, y) ==
    IF x = 0 \/ y = 0 THEN 0
    ELSE (x % 2) * (y % 2) + 2 * And16(x \div 2, y \div 2)
Or16(x, y) == x + y - And16(x, y)
Xor16(x, y) == x + y - 2 * And16(x, y)

\* a + b with the carry out of bit 31 kept
Add32_carry_kept(a, b) ==
    <<a[1] + b[1] + ((a[2] + b[2]) \div 65536), (a[2] + b[2]) % 65536>>
\* u32(a + b)
Add32(a, b) ==
    LET l == a[2] + b[2]
        h == a[1] + b[1] + (l \div 65536)
    IN  <<h % 65536, l % 65536>>
\* u32(a - b)
Sub32(a, b) ==
    LET l == a[2] - b[2]
        h == a[1] - b[1] + (l \div 65536)
    IN  <<h % 65536, l % 65536>>
\* u32(-a)
Neg32(a) == Sub32(Zero32, a)
And32(a, b) == <<And16(a[1], b[1]), And16(a[2], b[2])>>
Or32(a, b) == <<Or16(a[1], b[1]), Or16(a[2], b[2])>>
Xor32(a, b) == <<Xor16(a[1], b[1]), Xor16(a[2], b[2])>>
\* u32(~(a | b))
Nor32(a, b) == <<65535 - Or16(a[1], b[1]), 65535 - Or16(a[2], b[2])>>
\* a < b, both unsigned
Lt32(a, b) == a[1] < b[1] \/ (a[1] = b[1] /\ a[2] < b[2])

\* (a << n) & 0xFFFFFFFF, 0 <= n <= 31
Shl32(a, n) ==
    IF n < 16
    THEN <<(a[1] * Pow2(n) + (a[2] \div Pow2(16 - n))) % 65536,
           (a[2] * Pow2(n)) % 65536>>
    ELSE <<(a[2] * Pow2(n - 16)) % 65536, 0>>
\* (a >> n) & 0xFFFFFFFF, 0 <= n <= 31
Shr32(a, n) ==
    IF n < 16
    THEN <<a[1] \div Pow2(n),
           (a[2] \div Pow2(n)) + (a[1] % Pow2(n)) * Pow2(16 - n)>>
    ELSE <<0, a[1] \div Pow2(n - 16)>>

\* def u32(x), for a Python integer x in -2^31 .. 2^31 - 1
u32(x) == <<(x \div 65536) % 65536, x % 65536>>
\* def s32(x): the signed integer a word stands for, in -2^31 .. 2^31 - 1
s32(w) == IF w[1] < 32768 THEN w[1] * 65536 + w[2]
          ELSE (w[1] - 65536) * 65536 + w[2]
\* def sign16(x), for x in -32768 .. 65535
sign16(x) == LET y == x % 65536 IN IF y < 32768 THEN y ELSE y - 65536
\* def sext16(x)
sext16(x) == u32(sign16(x))
\* u32(s32(a) >> n): Python's >> on a negative integer floors, as \div does
Sra32(a, n) ==
    IF n < 16
    THEN u32(s32(a) \div Pow2(n))
    ELSE u32((s32(a) \div 65536) \div Pow2(n - 16))
\* n < w for a signed Python integer n and an unsigned word w
LtIntWord(n, w) == w[1] >= 32768 \/ n < w[1] * 65536 + w[2]

\* def bits(val, lo, hi) for the fields step decodes (at most 26 bits wide)
bits(val, lo, hi) ==
    IF lo >= 16 THEN (val[1] \div Pow2(lo - 16)) % Pow2(hi - lo + 1)
    ELSE IF hi < 16 THEN (val[2] \div Pow2(lo)) % Pow2(hi - lo + 1)
    ELSE (val[2] \div Pow2(lo)) + (val[1] % Pow2(hi - 15)) * Pow2(16 - lo)

(***************************************************************************)
(* Multiply and divide on words                                            *)
(***************************************************************************)
\* byte i (0 = least significant) of a word
ByteOf(w, i) ==
    IF i = 0 THEN w[2] % 256
    ELSE IF i = 1 THEN w[2] \div 256
    ELSE IF i = 2 THEN w[1] % 256
    ELSE w[1] \div 256
\* the sum of the byte products a_i * b_j with i + j = k
MulColumn(a, b, k) ==
    LET T(i) == IF k - i >= 0 /\ k - i <= 3 THEN ByteOf(a, i) * ByteOf(b, k - i) ELSE 0
    IN  T(0) + T(1) + T(2) + T(3)
RECURSIVE MulDigits(_, _, _, _)
MulDigits(a, b, k, c) ==
    IF k = 8 THEN <<>>
    ELSE LET t == MulColumn(a, b, k) + c
         IN  <<t % 256>> \o MulDigits(a, b, k + 1, t \div 256)
\* (a & 0xFFFFFFFF) * (b & 0xFFFFFFFF) as the pair of its upper and lower words
MulU64(a, b) ==
    LET pack(d) == [hi |-> <<d[8] * 256 + d[7], d[6] * 256 + d[5]>>,
                    lo |-> <<d[4] * 256 + d[3], d[2] * 256 + d[1]>>]
    IN  pack(MulDigits(a, b, 0, 0))
IsNeg32(a) == a[1] >= 32768
\* abs(s32(a)) as an unsigned word (2^31 for the most negative value)
Abs32(a) == IF IsNeg32(a) THEN Neg32(a) ELSE a
\* -x for a 64-bit two's complement value given as upper and lower words
Neg64(x) ==
    [hi |-> IF x.lo = Zero32 THEN Neg32(x.hi)
            ELSE <<65535 - x.hi[1], 65535 - x.hi[2]>>,
     lo |-> Neg32(x.lo)]
\* s32(a) * s32(b): Python's >> 32 and & 0xFFFFFFFF of a negative product
\* are the upper and lower words of its 64-bit two's complement
MulS64(a, b) ==
    LET m == MulU64(Abs32(a), Abs32(b))
    IN  IF IsNeg32(a) # IsNeg32(b) THEN Neg64(m) ELSE m

\* a // b and a % b for unsigned words, b # 0, as [q, r].
\* Below 2^23 the divisor is an integer d and the division is a long division
\* over the four bytes of a (every partial remainder is below d, so every
\* partial dividend is below 2^31).  From 2^23 on the quotient is at most
\* a[1] \div b[1] and at least that minus 5, and it is the largest k with
\* k * b <= a.
DivSmall(a, d) ==
    LET t3 == ByteOf(a, 3)
        t2 == (t3 % d) * 256 + ByteOf(a, 2)
        t1 == (t2 % d) * 256 + ByteOf(a, 1)
        t0 == (t1 % d) * 256 + ByteOf(a, 0)
    IN  [q |-> <<(t3 \div d) * 256 + (t2 \div d), (t1 \div d) * 256 + (t0 \div d)>>,
         r |-> u32(t0 % d)]
Fits(k, a, b) ==
    LET below(prod) == prod.hi = Zero32 /\ ~Lt32(a, prod.lo)
    IN  below(MulU64(<<0, k>>, b))
DivLarge(a, b) ==
    LET est == a[1] \div b[1]
        result(k) == [q |-> <<0, k>>, r |-> Sub32(a, MulU64(<<0, k>>, b).lo)]
    IN  result(CHOOSE j \in (IF est >= 5 THEN est - 5 ELSE 0)..est :
                   Fits(j, a, b) /\ ~Fits(j + 1, a, b))
DivModU(a, b) ==
    IF b[1] < 128 THEN DivSmall(a, b[1] * 65536 + b[2]) ELSE DivLarge(a, b)
\* u32(int(s32(a) / s32(b))): the float quotient of two integers below 2^31
\* in magnitude truncates to the exact quotient rounded toward zero
DivTrunc(a, b) ==
    LET with_sign(q) == IF IsNeg32(a) # IsNeg32(b) THEN Neg32(q) ELSE q
    IN  with_sign(DivModU(Abs32(a), Abs32(b)).q)
\* u32(int(s32(a) % s32(b))): Python's % takes the sign of the divisor
ModFloor(a, b) ==
    LET with_sign(n) == IF IsNeg32(b) THEN Neg32(n) ELSE n
        floored(m) == with_sign(IF m = Zero32 \/ IsNeg32(a) = IsNeg32(b) THEN m
                             ELSE Sub32(Abs32(b), m))
    IN  floored(DivModU(Abs32(a), Abs32(b)).r)

(***************************************************************************)
(* class Memory                                                            *)
(***************************************************************************)
DMEM_BASE == 67108864      \* 0x04000000
DMEM_END == 67112959       \* 0x04000FFF
IMEM_BASE == 67112960      \* 0x04001000
IMEM_END == 67117055       \* 0x04001FFF
RDRAM_END == 8388607       \* 0x007FFFFF
CART_BASE == 268435456     \* 0x10000000
CART_END == 532676607      \* 0x1FBFFFFF
STUB_START == 64           \* 0x40
STUB_END == 4096           \* 0x1000

\* a bytearray: element i, and the array with element i set to b
Get(arr, i) == IF i \in DOMAIN arr THEN arr[i] ELSE 0
Put(arr, i, b) ==
    IF b = 0 THEN [k \in DOMAIN arr \ {i} |-> arr[k]]
    ELSE [k \in DOMAIN arr \cup {i} |-> IF k = i THEN b ELSE arr[k]]
EmptyBytes == [k \in {} |-> 0]

\* rom_be: None, or a bytes object of length len
NoRom == [none |-> TRUE, len |-> 0, data |-> EmptyBytes]
Bytes(n, data) == [none |-> FALSE, len |-> n, data |-> data]
\* "if self.rom_be is not None": an empty image counts
Truthy_not_none(rom) == ~rom.none
\* "if self.rom_be": neither None nor empty
Truthy(rom) == ~rom.none /\ rom.len > 0

\* Memory.__init__
MemoryInit ==
    [rdram |-> EmptyBytes, sp_dmem |-> EmptyBytes, sp_imem |-> EmptyBytes,
     rom_be |-> NoRom, rom_size |-> 0]

\* Memory.load_rom
load_rom(m, rom_data_be) ==
    [m EXCEPT !.rom_be = rom_data_be, !.rom_size = rom_data_be.len]

\* virt_to_phys masking with 0x7FFFFFFF
virt_to_phys_wide(addr) == (addr[1] % 32768) * 65536 + addr[2]
\* Memory.virt_to_phys: addr & 0x1FFFFFFF
virt_to_phys(addr) == (addr[1] % 8192) * 65536 + addr[2]

\* the value Memory._read returns when no region covers the address
Unmapped == 0

\* _read with the upper end of scratch B taken 0x1000 too high
mem_read_long_imem(m, phys, size) ==
    IF DMEM_BASE <= phys /\ phys <= DMEM_END /\ size = 1
    THEN Get(m.sp_dmem, phys - DMEM_BASE)
    ELSE IF IMEM_BASE <= phys /\ phys <= IMEM_END + STUB_END /\ size = 1
    THEN Get(m.sp_imem, (phys - IMEM_BASE) % STUB_END)
    ELSE IF 0 <= phys /\ phys <= RDRAM_END /\ size = 1
    THEN Get(m.rdram, phys)
    ELSE IF CART_BASE <= phys /\ phys <= CART_END /\ size = 1 /\ Truthy(m.rom_be)
            /\ 0 <= phys - CART_BASE /\ phys - CART_BASE < m.rom_size
    THEN Get(m.rom_be.data, phys - CART_BASE)
    ELSE Unmapped
\* Memory._read
mem_read(m, phys, size) ==
    IF DMEM_BASE <= phys /\ phys <= DMEM_END /\ size = 1
    THEN Get(m.sp_dmem, phys - DMEM_BASE)
    ELSE IF IMEM_BASE <= phys /\ phys <= IMEM_END /\ size = 1
    THEN Get(m.sp_imem, phys - IMEM_BASE)
    ELSE IF 0 <= phys /\ phys <= RDRAM_END /\ size = 1
    THEN Get(m.rdram, phys)
    ELSE IF CART_BASE <= phys /\ phys <= CART_END /\ size = 1 /\ Truthy(m.rom_be)
            /\ 0 <= phys - CART_BASE /\ phys - CART_BASE < m.rom_size
    THEN Get(m.rom_be.data, phys - CART_BASE)
    ELSE Unmapped

\* _write with a cartridge case that stores into the image
mem_write_cart(m, phys, val, size) ==
    LET b == val[2] % 256
    IN  IF DMEM_BASE <= phys /\ phys <= DMEM_END /\ size = 1
        THEN [m EXCEPT !.sp_dmem = Put(@, phys - DMEM_BASE, b)]
        ELSE IF IMEM_BASE <= phys /\ phys <= IMEM_END /\ size = 1
        THEN [m EXCEPT !.sp_imem = Put(@, phys - IMEM_BASE, b)]
        ELSE IF 0 <= phys /\ phys <= RDRAM_END /\ size = 1
        THEN [m EXCEPT !.rdram = Put(@, phys, b)]
        ELSE IF CART_BASE <= phys /\ phys <= CART_END /\ size = 1 /\ Truthy(m.rom_be)
        THEN [m EXCEPT !.rom_be.data = Put(@, phys - CART_BASE, b)]
        ELSE m
\* Memory._write; val is a word, b = val & 0xFF
mem_write(m, phys, val, size) ==
    LET b == val[2] % 256
    IN  IF DMEM_BASE <= phys /\ phys <= DMEM_END /\ size = 1
        THEN [m EXCEPT !.sp_dmem = Put(@, phys - DMEM_BASE, b)]
        ELSE IF IMEM_BASE <= phys /\ phys <= IMEM_END /\ size = 1
        THEN [m EXCEPT !.sp_imem = Put(@, phys - IMEM_BASE, b)]
        ELSE IF 0 <= phys /\ phys <= RDRAM_END /\ size = 1
        THEN [m EXCEPT !.rdram = Put(@, phys, b)]
        ELSE m

\* addr + k for the byte offsets 1..3 of a half or word access.  Python does
\* not wrap the sum, but virt_to_phys keeps only its low 29 bits, which are
\* those of the sum taken modulo 2^32.
Plus(addr, k) == Add32(addr, <<0, k>>)

\* Memory.read_u8 / read_u16 / read_u32 (read_u8 and read_u16 return
\* integers, read_u32 a word)
read_u8(m, addr) == mem_read(m, virt_to_phys(addr), 1)
read_u16(m, addr) ==
    LET b0 == read_u8(m, addr)
        b1 == read_u8(m, Plus(addr, 1))
    IN  b0 * 256 + b1
read_u32(m, addr) ==
    LET b0 == read_u8(m, addr)
        b1 == read_u8(m, Plus(addr, 1))
        b2 == read_u8(m, Plus(addr, 2))
        b3 == read_u8(m, Plus(addr, 3))
    IN  <<b0 * 256 + b1, b2 * 256 + b3>>

\* write_u32 storing the low byte first
write_u32_le(m, addr, val) ==
    LET m1 == mem_write(m, virt_to_phys(addr), <<0, val[2] % 256>>, 1)
        m2 == mem_write(m1, virt_to_phys(Plus(addr, 1)), <<0, (val[2] \div 256) % 256>>, 1)
        m3 == mem_write(m2, virt_to_phys(Plus(addr, 2)), <<0, val[1] % 256>>, 1)
    IN  mem_write(m3, virt_to_phys(Plus(addr, 3)), <<0, (val[1] \div 256) % 256>>, 1)
\* Memory.write_u8 / write_u16 / write_u32
write_u8(m, addr, val) == mem_write(m, virt_to_phys(addr), val, 1)
write_u16(m, addr, val) ==
    LET m1 == write_u8(m, addr, <<0, (val[2] \div 256) % 256>>)
    IN  write_u8(m1, Plus(addr, 1), <<0, val[2] % 256>>)
write_u32(m, addr, val) ==
    LET m1 == write_u8(m, addr, <<0, (val[1] \div 256) % 256>>)
        m2 == write_u8(m1, Plus(addr, 1), <<0, val[1] % 256>>)
        m3 == write_u8(m2, Plus(addr, 2), <<0, (val[2] \div 256) % 256>>)
    IN  write_u8(m3, Plus(addr, 3), <<0, val[2] % 256>>)

\* the guard of the loader without the length test
boot_stub_ok_any_len(m) == Truthy(m.rom_be)
\* Memory.load_boot_stub_to_sp_dmem: the value it returns
boot_stub_ok(m) == ~(~Truthy(m.rom_be) \/ m.rom_size < STUB_END)
\* the loader without the "Clear DMEM" loop
load_boot_stub_no_clear(m) ==
    IF ~boot_stub_ok(m) THEN m
    ELSE [m EXCEPT !.sp_dmem =
             [i \in {k \in DOMAIN m.rom_be.data : STUB_START <= k /\ k < STUB_END}
                     \cup {k \in DOMAIN m.sp_dmem : k < STUB_START}
                 |-> IF i < STUB_START THEN m.sp_dmem[i] ELSE m.rom_be.data[i]]]
\* Memory.load_boot_stub_to_sp_dmem: the memory it leaves
load_boot_stub_to_sp_dmem(m) ==
    IF ~boot_stub_ok(m) THEN m
    ELSE LET srclen == (IF m.rom_be.len < STUB_END THEN m.rom_be.len ELSE STUB_END)
                       - STUB_START
             end == IF STUB_START + srclen < STUB_END THEN STUB_START + srclen
                    ELSE STUB_END
         IN  [m EXCEPT !.sp_dmem =
                [i \in {k \in DOMAIN m.rom_be.data : STUB_START <= k /\ k < end}
                    |-> m.rom_be.data[i]]]

(***************************************************************************)
(* normalize_rom_to_z64_be and ROMHeader                                   *)
(*                                                                         *)
(* A bytes object is the record Bytes(len, data) used for rom_be.          *)
(***************************************************************************)
MAGIC_Z64 == <<32823, 4672>>       \* 0x80371240
MAGIC_N64 == <<16402, 14208>>      \* 0x40123780
MAGIC_V64 == <<14208, 16402>>      \* 0x37804012
\* (b0 << 24) | (b1 << 16) | (b2 << 8) | b3 of the first four bytes
magic_of(rom) ==
    <<Get(rom.data, 0) * 256 + Get(rom.data, 1), Get(rom.data, 2) * 256 + Get(rom.data, 3)>>

\* "out[i:i+4] = rom[i:i+4][::-1]": the index of rom that lands on out[j].
\* The slice of the last group holds the len - i bytes that are left, and it
\* is those bytes that are reversed.
\* the index of a rotation of each group by one byte
swap32_rotates(j, len) == (j - (j % 4)) + (((j % 4) + 1) % 4)
swap32_index(j, len) ==
    LET i == j - (j % 4)
        n == IF len - i < 4 THEN len - i ELSE 4
    IN  i + (n - 1) - (j - i)
\* "out[i], out[i+1] = rom[i+1], rom[i]", and "out[i] = rom[i]" for a last
\* byte without partner
swap16_index(j, len) ==
    LET i == j - (j % 2)
    IN  IF i + 1 < len THEN i + 1 - (j - i) ELSE j
\* the bytes object whose byte j is rom[index(j, len(rom))]
swap32(rom) ==
    Bytes(rom.len, [j \in {k \in 0..(rom.len - 1) :
                               Get(rom.data, swap32_index(k, rom.len)) # 0}
                       |-> rom.data[swap32_index(j, rom.len)]])
swap16(rom) ==
    Bytes(rom.len, [j \in {k \in 0..(rom.len - 1) :
                               Get(rom.data, swap16_index(k, rom.len)) # 0}
                       |-> rom.data[swap16_index(j, rom.len)]])

\* normalize with the 32-bit swap applied to big-endian input as well
normalize_swaps_z64(rom) ==
    IF rom.len < 4 THEN rom
    ELSE IF magic_of(rom) \in {MAGIC_Z64, MAGIC_N64} THEN swap32(rom)
    ELSE IF magic_of(rom) = MAGIC_V64 THEN swap16(rom)
    ELSE rom
\* def normalize_rom_to_z64_be(rom)
normalize_rom_to_z64_be(rom) ==
    IF rom.len < 4 THEN rom
    ELSE IF magic_of(rom) = MAGIC_Z64 THEN rom
    ELSE IF magic_of(rom) = MAGIC_N64 THEN swap32(rom)
    ELSE IF magic_of(rom) = MAGIC_V64 THEN swap16(rom)
    ELSE rom

\* ROMHeader(data_be) returns; it raises (struct.error, IndexError) when
\* data_be[:0x40] is shorter than 0x40 bytes
HEADER_LEN == 64
header_ok(data_be) == data_be.len >= HEADER_LEN

(***************************************************************************)
(* class MIPSCPU                                                           *)
(*                                                                         *)
(* The operators below work on a record c of the fields step reads and     *)
(* writes besides pc: [reg, hi, lo, cp0, mem], mem being the Memory.       *)
(***************************************************************************)
PC_BOOT == <<41984, 64>>       \* 0xA4000040
SP_BOOT == <<41984, 8176>>     \* 0xA4001FF0
Regs == 0..31

\* MIPSCPU._read_reg; the registers hold words, of which u32 is the identity
read_reg(c, i) == IF i = 0 THEN Zero32 ELSE c.reg[i]
\* _write_reg without the "i != 0" guard
write_reg_any(c, i, val) == [c EXCEPT !.reg[i] = val]
\* MIPSCPU._write_reg; val is the word u32(val)
write_reg(c, i, val) == IF i # 0 THEN [c EXCEPT !.reg[i] = val] ELSE c

\* MIPSCPU._fetch
fetch(m, addr) == read_u32(m, addr)

\* MIPSCPU._do_mult
do_mult(c, a, b, signed) ==
    LET store(res) == [c EXCEPT !.hi = res.hi, !.lo = res.lo]
    IN  store(IF signed THEN MulS64(a, b) ELSE MulU64(a, b))

\* _do_div giving the hardware-like result on a zero divisor
do_div_wraps(c, a, b, signed) ==
    IF b = Zero32 THEN [c EXCEPT !.lo = <<65535, 65535>>, !.hi = a]
    ELSE IF signed
    THEN [c EXCEPT !.lo = DivTrunc(a, b), !.hi = ModFloor(a, b)]
    ELSE [c EXCEPT !.lo = DivModU(a, b).q, !.hi = DivModU(a, b).r]
\* MIPSCPU._do_div
do_div(c, a, b, signed) ==
    IF b = Zero32 THEN c
    ELSE IF signed
    THEN [c EXCEPT !.lo = DivTrunc(a, b), !.hi = ModFloor(a, b)]
    ELSE [c EXCEPT !.lo = DivModU(a, b).q, !.hi = DivModU(a, b).r]

\* a return address one word further on, past the delay slot
next_pc_past_slot(pc) == Add32(pc, <<0, 8>>)
\* next_pc = u32(pc + 4)
next_pc_of(pc) == Add32(pc, <<0, 4>>)
\* u32(next_pc + (simm << 2))
rel_target(next_pc, simm) == Add32(next_pc, Shl32(simm, 2))
\* u32((next_pc & 0xF0000000) | (target << 2)), target below 2^26
abs_target(next_pc, target) ==
    <<(next_pc[1] \div 4096) * 4096 + ((target * 4) \div 65536),
      (target * 4) % 65536>>

\* what the decode of one instruction leaves: the fields, branch_taken and
\* branch_target
Seq0(c) == [c |-> c, branch_taken |-> FALSE, branch_target |-> Zero32]
Taken(c, t) == [c |-> c, branch_taken |-> TRUE, branch_target |-> t]
CondTaken(c, cond, t) == IF cond THEN Taken(c, t) ELSE Seq0(c)

\* step, op == 0x00 (SPECIAL)
exec_special(c, instr, next_pc) ==
    LET rs == bits(instr, 21, 25)
        rt == bits(instr, 16, 20)
        rd == bits(instr, 11, 15)
        sa == bits(instr, 6, 10)
        fn == bits(instr, 0, 5)
        vs == read_reg(c, rs)
        vt == read_reg(c, rt)
    IN  CASE fn = 0 -> Seq0(write_reg(c, rd, Shl32(vt, sa)))
          [] fn = 2 -> Seq0(write_reg(c, rd, Shr32(vt, sa)))
          [] fn = 3 -> Seq0(write_reg(c, rd, Sra32(vt, sa)))
          [] fn = 4 -> Seq0(write_reg(c, rd, Shl32(vt, vs[2] % 32)))
          [] fn = 6 -> Seq0(write_reg(c, rd, Shr32(vt, vs[2] % 32)))
          [] fn = 7 -> Seq0(write_reg(c, rd, Sra32(vt, vs[2] % 32)))
          [] fn = 8 -> Taken(c, vs)
          [] fn = 9 -> LET jump(c1) == Taken(c1, read_reg(c1, rs))
                       IN  jump(write_reg(c, IF rd # 0 THEN rd ELSE 31, next_pc))
          [] fn = 16 -> Seq0(write_reg(c, rd, c.hi))
          [] fn = 18 -> Seq0(write_reg(c, rd, c.lo))
          [] fn = 17 -> Seq0([c EXCEPT !.hi = vs])
          [] fn = 19 -> Seq0([c EXCEPT !.lo = vs])
          [] fn = 24 -> Seq0(do_mult(c, vs, vt, TRUE))
          [] fn = 25 -> Seq0(do_mult(c, vs, vt, FALSE))
          [] fn = 26 -> Seq0(do_div(c, vs, vt, TRUE))
          [] fn = 27 -> Seq0(do_div(c, vs, vt, FALSE))
          [] fn = 33 -> Seq0(write_reg(c, rd, Add32(vs, vt)))
          [] fn = 35 -> Seq0(write_reg(c, rd, Sub32(vs, vt)))
          [] fn = 36 -> Seq0(write_reg(c, rd, And32(vs, vt)))
          [] fn = 37 -> Seq0(write_reg(c, rd, Or32(vs, vt)))
          [] fn = 38 -> Seq0(write_reg(c, rd, Xor32(vs, vt)))
          [] fn = 39 -> Seq0(write_reg(c, rd, Nor32(vs, vt)))
          [] fn = 42 -> Seq0(write_reg(c, rd, IF s32(vs) < s32(vt) THEN One32 ELSE Zero32))
          [] fn = 43 -> Seq0(write_reg(c, rd, IF Lt32(vs, vt) THEN One32 ELSE Zero32))
          [] OTHER -> Seq0(c)

\* step, op == 0x01 (REGIMM)
exec_regimm(c, instr, next_pc) ==
    LET rs == bits(instr, 21, 25)
        rtcode == bits(instr, 16, 20)
        simm == sext16(bits(instr, 0, 15))
        cmp == s32(read_reg(c, rs))
        t == rel_target(next_pc, simm)
    IN  CASE rtcode = 0 -> CondTaken(c, cmp < 0, t)
          [] rtcode = 1 -> CondTaken(c, cmp >= 0, t)
          [] rtcode = 16 -> IF cmp < 0 THEN Taken(write_reg(c, 31, next_pc), t) ELSE Seq0(c)
          [] rtcode = 17 -> IF cmp >= 0 THEN Taken(write_reg(c, 31, next_pc), t) ELSE Seq0(c)
          [] OTHER -> Seq0(c)

\* COP0 treating every rs other than MFC0 as MTC0
exec_cop0_stores(c, instr) ==
    LET rs_co == bits(instr, 21, 25)
        rt == bits(instr, 16, 20)
        rd == bits(instr, 11, 15)
    IN  IF rs_co = 0 THEN write_reg(c, rt, c.cp0[rd])
        ELSE [c EXCEPT !.cp0[rd] = read_reg(c, rt)]
\* step, op == 0x10 (COP0)
exec_cop0(c, instr) ==
    LET rs_co == bits(instr, 21, 25)
        rt == bits(instr, 16, 20)
        rd == bits(instr, 11, 15)
    IN  CASE rs_co = 0 -> write_reg(c, rt, c.cp0[rd])
          [] rs_co = 4 -> [c EXCEPT !.cp0[rd] = read_reg(c, rt)]
          [] OTHER -> c

\* step, the loads and stores (op 0x20 .. 0x2B)
exec_loadstore(c, instr) ==
    LET op == bits(instr, 26, 31)
        rs == bits(instr, 21, 25)
        rt == bits(instr, 16, 20)
        simm == sext16(bits(instr, 0, 15))
        addr == Add32(read_reg(c, rs), simm)
    IN  CASE op = 32 -> LET sbyte(val) == IF val < 128 THEN val ELSE val - 256
                        IN  write_reg(c, rt, u32(sign16(sbyte(read_u8(c.mem, addr)))))
          [] op = 33 -> write_reg(c, rt, u32(sign16(read_u16(c.mem, addr))))
          [] op = 35 -> write_reg(c, rt, read_u32(c.mem, addr))
          [] op = 36 -> write_reg(c, rt, <<0, read_u8(c.mem, addr)>>)
          [] op = 37 -> write_reg(c, rt, <<0, read_u16(c.mem, addr)>>)
          [] op = 40 -> [c EXCEPT !.mem = write_u8(@, addr, read_reg(c, rt))]
          [] op = 41 -> [c EXCEPT !.mem = write_u16(@, addr, read_reg(c, rt))]
          [] op = 43 -> [c EXCEPT !.mem = write_u32(@, addr, read_reg(c, rt))]
          [] OTHER -> c

\* step, the decode chain (lines "if op == 0x00" .. "else: pass")
exec(c, instr, next_pc) ==
    LET op == bits(instr, 26, 31)
        rs == bits(instr, 21, 25)
        rt == bits(instr, 16, 20)
        imm == bits(instr, 0, 15)
        simm == sext16(imm)
        target == bits(instr, 0, 25)
        vs == read_reg(c, rs)
        vt == read_reg(c, rt)
    IN  CASE op = 0 -> exec_special(c, instr, next_pc)
          [] op = 1 -> exec_regimm(c, instr, next_pc)
          [] op = 2 -> Taken(c, abs_target(next_pc, target))
          [] op = 3 -> Taken(write_reg(c, 31, next_pc), abs_target(next_pc, target))
          [] op = 4 -> CondTaken(c, vs = vt, rel_target(next_pc, simm))
          [] op = 5 -> CondTaken(c, vs # vt, rel_target(next_pc, simm))
          [] op = 6 -> CondTaken(c, s32(vs) <= 0, rel_target(next_pc, simm))
          [] op = 7 -> CondTaken(c, s32(vs) > 0, rel_target(next_pc, simm))
          [] op = 8 -> Seq0(write_reg(c, rt, Add32(vs, simm)))
          [] op = 9 -> Seq0(write_reg(c, rt, Add32(vs, simm)))
          [] op = 10 -> Seq0(write_reg(c, rt, IF LtIntWord(s32(vs), simm) THEN One32 ELSE Zero32))
          [] op = 11 -> Seq0(write_reg(c, rt, IF Lt32(vs, simm) THEN One32 ELSE Zero32))
          [] op = 12 -> Seq0(write_reg(c, rt, And32(vs, <<0, imm>>)))
          [] op = 13 -> Seq0(write_reg(c, rt, Or32(vs, <<0, imm>>)))
          [] op = 14 -> Seq0(write_reg(c, rt, Xor32(vs, <<0, imm>>)))
          [] op = 15 -> Seq0(write_reg(c, rt, <<imm, 0>>))
          [] op = 16 -> Seq0(exec_cop0(c, instr))
          [] op \in {32, 33, 35, 36, 37, 40, 41, 43} -> Seq0(exec_loadstore(c, instr))
          [] op = 47 -> Seq0(c)
          [] OTHER -> Seq0(c)

\* _exec_delay_slot without the SW case
exec_delay_slot_no_store(c, instr) ==
    LET op == bits(instr, 26, 31)
        rs == bits(instr, 21, 25)
        rt == bits(instr, 16, 20)
        rd == bits(instr, 11, 15)
        fn == bits(instr, 0, 5)
        imm == bits(instr, 0, 15)
        simm == sext16(imm)
    IN  CASE op = 0 /\ fn = 33 -> write_reg(c, rd, Add32(read_reg(c, rs), read_reg(c, rt)))
          [] op = 0 /\ fn = 37 -> write_reg(c, rd, Or32(read_reg(c, rs), read_reg(c, rt)))
          [] op = 13 -> write_reg(c, rt, Or32(read_reg(c, rs), <<0, imm>>))
          [] op = 15 -> write_reg(c, rt, <<imm, 0>>)
          [] op = 35 -> write_reg(c, rt, read_u32(c.mem, Add32(read_reg(c, rs), simm)))
          [] OTHER -> c
\* _exec_delay_slot running the whole table of step
exec_delay_slot_full(c, instr) == exec(c, instr, Zero32).c
\* MIPSCPU._exec_delay_slot
exec_delay_slot(c, instr) ==
    LET op == bits(instr, 26, 31)
        rs == bits(instr, 21, 25)
        rt == bits(instr, 16, 20)
        rd == bits(instr, 11, 15)
        fn == bits(instr, 0, 5)
        imm == bits(instr, 0, 15)
        simm == sext16(imm)
    IN  CASE op = 0 /\ fn = 33 -> write_reg(c, rd, Add32(read_reg(c, rs), read_reg(c, rt)))
          [] op = 0 /\ fn = 37 -> write_reg(c, rd, Or32(read_reg(c, rs), read_reg(c, rt)))
          [] op = 13 -> write_reg(c, rt, Or32(read_reg(c, rs), <<0, imm>>))
          [] op = 15 -> write_reg(c, rt, <<imm, 0>>)
          [] op = 35 -> write_reg(c, rt, read_u32(c.mem, Add32(read_reg(c, rs), simm)))
          [] op = 43 -> [c EXCEPT !.mem =
                            write_u32(@, Add32(read_reg(c, rs), simm), read_reg(c, rt))]
          [] OTHER -> c

\* step without the idle guard
is_idle_never(r) == FALSE
\* "if not self.running: return"
is_idle(r) == ~r
\* a step counted again for its delay slot
count_up_twice(n) == n + 2
\* "self.instructions += 1"
count_up(n) == n + 1

\* step deciding the branch and its target after the delay slot has run
step_slot_first(c, pc0, n) ==
    LET next_pc == next_pc_of(pc0)
        instr == fetch(c.mem, pc0)
        delay_instr == fetch(c.mem, next_pc)
        d == exec(c, instr, next_pc)
        late == exec(exec_delay_slot(c, delay_instr), instr, next_pc)
    IN  IF d.branch_taken
        THEN [c |-> late.c,
              pc |-> IF late.branch_taken THEN late.branch_target ELSE next_pc,
              instructions |-> count_up(n), instr |-> instr,
              branch_taken |-> late.branch_taken,
              branch_target |-> late.branch_target, delay |-> <<delay_instr>>]
        ELSE [c |-> d.c, pc |-> next_pc,
              instructions |-> count_up(n), instr |-> instr,
              branch_taken |-> FALSE, branch_target |-> d.branch_target,
              delay |-> <<>>]
\* MIPSCPU.step while running: the fields it leaves, with the values its
\* locals took (instr, branch_taken, branch_target, and the delay-slot words
\* it handed to _exec_delay_slot)
step(c, pc0, n) ==
    LET next_pc == next_pc_of(pc0)
        slot(instr, d, delay_instr) ==
            [c |-> exec_delay_slot(d.c, delay_instr), pc |-> d.branch_target,
             instructions |-> count_up(n), instr |-> instr,
             branch_taken |-> TRUE, branch_target |-> d.branch_target,
             delay |-> <<delay_instr>>]
        finish(instr, d) ==
            IF d.branch_taken
            THEN slot(instr, d, fetch(d.c.mem, next_pc))
            ELSE [c |-> d.c, pc |-> next_pc,
                  instructions |-> count_up(n), instr |-> instr,
                  branch_taken |-> FALSE, branch_target |-> d.branch_target,
                  delay |-> <<>>]
        decode(instr) == finish(instr, exec(c, instr, next_pc))
    IN  decode(fetch(c.mem, pc0))

(***************************************************************************)
(* Inputs: instruction words and cartridge images                          *)
(***************************************************************************)
\* the encodings step decodes with bits(): R, I and J formats
RType(rs, rt, rd, sa, fn) == <<rs * 32 + rt, rd * 2048 + sa * 64 + fn>>
IType(op, rs, rt, imm) == <<op * 1024 + rs * 32 + rt, imm>>
JType(op, target) == <<op * 1024 + (target \div 65536), target % 65536>>

\* the 26-bit target field of a J/JAL to 0xA4000000 + off
TargetField(off) == (DMEM_BASE + off) \div 4

NOP == Zero32

\* taken branches and jumps of every kind, each with a store in its delay
\* slot; every target is the next pair, the last one is the stack pointer
ProgStores ==
    << IType(4, 0, 0, 1),               \* 40: BEQ r0, r0, +1
       IType(43, 29, 29, 0),            \* 44: SW r29, 0(r29)
       JType(3, TargetField(80)),       \* 48: JAL 0xA4000050
       IType(43, 29, 31, 4),            \* 4C: SW r31, 4(r29)
       IType(1, 29, 16, 1),             \* 50: BLTZAL r29, +1
       IType(43, 29, 29, 14),           \* 54: SW r29, 14(r29): runs off scratch B
       JType(2, TargetField(96)),       \* 58: J 0xA4000060
       IType(43, 0, 31, 256),           \* 5C: SW r31, 256(r0)
       RType(29, 0, 5, 0, 9),           \* 60: JALR r5, r29
       IType(43, 0, 5, 32765) >>        \* 64: SW r5, 0x7FFD(r0)

\* the other branch kinds, with the five other forms _exec_delay_slot executes
ProgSlots ==
    << JType(2, TargetField(72)),       \* 40: J 0xA4000048
       IType(15, 0, 0, 4660),           \* 44: LUI r0, 0x1234
       IType(5, 29, 0, 1),              \* 48: BNE r29, r0, +1
       IType(13, 29, 4, 3855),          \* 4C: ORI r4, r29, 0x0F0F
       IType(1, 0, 1, 1),               \* 50: BGEZ r0, +1
       RType(5, 29, 5, 0, 33),          \* 54: ADDU r5, r5, r29
       IType(1, 0, 17, 1),              \* 58: BGEZAL r0, +1
       IType(35, 29, 2, 57424),         \* 5C: LW r2, -8112(r29)
       IType(6, 29, 0, 1),              \* 60: BLEZ r29, +1
       RType(29, 0, 0, 0, 37),          \* 64: OR r0, r29, r0
       RType(29, 0, 0, 0, 8),           \* 68: JR r29
       IType(43, 29, 2, 0) >>           \* 6C: SW r2, 0(r29)

\* taken branches with delay-slot words _exec_delay_slot does not execute
ProgOtherSlots ==
    << JType(2, TargetField(72)),       \* 40: J 0xA4000048
       IType(9, 29, 7, 4),              \* 44: ADDIU r7, r29, 4
       IType(4, 0, 0, 1),               \* 48: BEQ r0, r0, +1
       JType(3, 0),                     \* 4C: JAL 0
       JType(3, TargetField(88)),       \* 50: JAL 0xA4000058
       RType(29, 0, 0, 0, 17),          \* 54: MTHI r29
       IType(1, 29, 0, 1),              \* 58: BLTZ r29, +1
       IType(40, 29, 29, 0),            \* 5C: SB r29, 0(r29)
       IType(1, 0, 1, 1),               \* 60: BGEZ r0, +1
       IType(16, 4, 29, 24576),         \* 64: MTC0 r29, cp0[12]
       RType(29, 0, 0, 0, 9),           \* 68: JALR r29 (rd = 0: link in r31)
       RType(29, 0, 0, 0, 8) >>         \* 6C: JR r29

\* branches that are not taken after reset, then one that is
ProgNotTaken ==
    << IType(5, 0, 0, 1),               \* 40: BNE r0, r0, +1
       IType(43, 29, 29, 0),            \* 44: SW r29, 0(r29)
       IType(7, 29, 0, 1),              \* 48: BGTZ r29, +1
       IType(9, 0, 1, 1),               \* 4C: ADDIU r1, r0, 1
       IType(1, 1, 16, 1),              \* 50: BLTZAL r1, +1
       IType(7, 1, 0, 1),               \* 54: BGTZ r1, +1
       IType(43, 29, 1, 8) >>           \* 58: SW r1, 8(r29)

\* HI/LO, multiply and divide
ProgDiv ==
    << RType(29, 29, 0, 0, 24),         \* 40: MULT r29, r29
       RType(29, 0, 0, 0, 26),          \* 44: DIV r29, r0
       RType(29, 0, 0, 0, 27),          \* 48: DIVU r29, r0
       IType(9, 0, 1, 65529),           \* 4C: ADDIU r1, r0, -7
       RType(29, 1, 0, 0, 26),          \* 50: DIV r29, r1
       RType(0, 0, 0, 0, 16),           \* 54: MFHI r0
       RType(1, 29, 0, 0, 27),          \* 58: DIVU r1, r29
       RType(0, 0, 3, 0, 18) >>         \* 5C: MFLO r3

\* register ALU forms, among them ADD and SUB
ProgAlu ==
    << IType(9, 0, 1, 65529),           \* 40: ADDIU r1, r0, -7
       RType(29, 1, 2, 0, 32),          \* 44: ADD r2, r29, r1
       RType(29, 1, 3, 0, 33),          \* 48: ADDU r3, r29, r1
       RType(29, 1, 4, 0, 34),          \* 4C: SUB r4, r29, r1
       RType(29, 1, 5, 0, 35),          \* 50: SUBU r5, r29, r1
       RType(0, 29, 0, 3, 3),           \* 54: SRA r0, r29, 3
       IType(10, 1, 6, 65535),          \* 58: SLTI r6, r1, -1
       RType(1, 29, 7, 0, 25) >>        \* 5C: MULTU r1, r29

\* words outside the instruction table, after HI, LO and cp0 are set
ProgUnknown ==
    << RType(29, 29, 0, 0, 24),         \* 40: MULT r29, r29
       IType(63, 29, 29, 65535),        \* 44: primary opcode 0x3F
       IType(17, 29, 29, 33),           \* 48: primary opcode 0x11 (COP1)
       RType(29, 29, 29, 0, 12),        \* 4C: SPECIAL 0x0C (SYSCALL)
       IType(1, 29, 2, 1),              \* 50: REGIMM rt = 2
       IType(16, 16, 29, 59394),        \* 54: COP0 rs = 0x10
       IType(47, 29, 29, 8),            \* 58: CACHE
       RType(29, 29, 29, 31, 63) >>     \* 5C: SPECIAL 0x3F

\* loads, stores and cp0 moves, several with destination register 0
ProgLoads ==
    << IType(36, 29, 0, 57424),         \* 40: LBU r0, -8112(r29)
       IType(35, 29, 0, 57424),         \* 44: LW r0, -8112(r29)
       IType(16, 4, 29, 24576),         \* 48: MTC0 r29, cp0[12]
       IType(16, 0, 0, 24576),          \* 4C: MFC0 r0, cp0[12]
       IType(32, 29, 2, 57424),         \* 50: LB r2, -8112(r29)
       IType(41, 29, 2, 2),             \* 54: SH r2, 2(r29)
       IType(33, 29, 3, 2),             \* 58: LH r3, 2(r29)
       IType(16, 0, 4, 24576) >>        \* 5C: MFC0 r4, cp0[12]

\* stores to and loads from the cartridge range through 0xB0000000
ProgCart ==
    << IType(15, 0, 1, 45056),          \* 40: LUI r1, 0xB000
       IType(43, 1, 29, 0),             \* 44: SW r29, 0(r1): onto the magic
       IType(40, 1, 29, 67),            \* 48: SB r29, 67(r1)
       IType(41, 1, 29, 4095),          \* 4C: SH r29, 4095(r1): across the image's end
       IType(35, 1, 2, 0),              \* 50: LW r2, 0(r1)
       IType(36, 1, 3, 4096),           \* 54: LBU r3, 4096(r1): past the image
       JType(3, TargetField(96)),       \* 58: JAL 0xA4000060
       IType(43, 1, 31, 64) >>          \* 5C: SW r31, 64(r1)

\* signed divisions whose operands differ in sign, and SLTI with negative
\* immediates
ProgSigned ==
    << IType(9, 0, 1, 65529),           \* 40: ADDIU r1, r0, -7
       IType(9, 0, 2, 2),               \* 44: ADDIU r2, r0, 2
       RType(1, 2, 0, 0, 26),           \* 48: DIV r1, r2
       RType(2, 1, 0, 0, 26),           \* 4C: DIV r2, r1
       IType(10, 0, 3, 65535),          \* 50: SLTI r3, r0, -1
       IType(10, 1, 4, 5),              \* 54: SLTI r4, r1, 5
       IType(10, 2, 5, 65529),          \* 58: SLTI r5, r2, -7
       RType(29, 1, 0, 0, 26) >>        \* 5C: DIV r29, r1

\* taken branches whose delay slot overwrites the register the branch reads
ProgClobber ==
    << IType(15, 0, 1, 41984),          \* 40: LUI r1, 0xA400
       IType(13, 1, 1, 84),             \* 44: ORI r1, r1, 0x54
       IType(13, 0, 2, 1),              \* 48: ORI r2, r0, 1
       RType(1, 0, 0, 0, 8),            \* 4C: JR r1
       IType(15, 0, 1, 4660),           \* 50: LUI r1, 0x1234
       IType(5, 2, 0, 1),               \* 54: BNE r2, r0, +1
       RType(0, 0, 2, 0, 37),           \* 58: OR r2, r0, r0
       RType(2, 0, 5, 0, 9),            \* 5C: JALR r5, r2
       IType(13, 0, 2, 64) >>           \* 60: ORI r2, r0, 0x40

Programs ==
    { ProgStores, ProgSlots, ProgOtherSlots, ProgNotTaken, ProgDiv, ProgAlu,
      ProgUnknown, ProgLoads, ProgCart, ProgSigned, ProgClobber }

\* a big-endian image of n bytes: the magic 0x80371240, then program p at 0x40
Magic == <<32823, 4672>>
ImageByte(p, k) ==
    IF k < 4 THEN ByteOf(Magic, 3 - k)
    ELSE IF k >= STUB_START /\ k < STUB_START + 4 * Len(p)
    THEN ByteOf(p[((k - STUB_START) \div 4) + 1], 3 - ((k - STUB_START) % 4))
    ELSE 0
ImageOf(n, p) ==
    Bytes(n, [k \in {j \in 0..(STUB_START + 4 * Len(p) - 1) : j < n /\ ImageByte(p, j) # 0}
                |-> ImageByte(p, k)])
ShortLen == STUB_START + 8
Images == {ImageOf(STUB_END, p) : p \in Programs}

(***************************************************************************)
(* State                                                                   *)
(***************************************************************************)
VARIABLES
    reg, hi, lo, pc, cp0, running, instructions,   \* MIPSCPU fields
    rdram, sp_dmem, sp_imem, rom_be, rom_size,     \* Memory fields
    call,                                          \* the latest call and its locals
    loads, resets, writes,                         \* calls made so far
    emu_running,                                   \* MIPSEMU.running
    threads,                                       \* the emu_loop threads alive (a bag)
    ui                                             \* the command the UI thread is in

cpu_vars == <<reg, hi, lo, pc, cp0, running, instructions>>
mem_vars == <<rdram, sp_dmem, sp_imem, rom_be, rom_size>>
vars == <<reg, hi, lo, pc, cp0, running, instructions,
          rdram, sp_dmem, sp_imem, rom_be, rom_size, call, loads, resets, writes,
          emu_running, threads, ui>>
emu_vars == <<emu_running, threads, ui>>

\* bounds of the exploration
MaxSteps == 8
MaxLoads == 1
MaxResets == 1
MaxWrites == 2
MaxThreads == 2

\* where an execution context stands: at is its position, pc0 the local
\* "pc = self.pc" of the step it is in, stale tells that reset() has run
\* since that step read pc
Context(at, pc0, stale) == [at |-> at, pc0 |-> pc0, stale |-> stale]
At(at) == Context(at, Zero32, FALSE)

\* the Memory object and the record of fields handed to step
Mem == [rdram |-> rdram, sp_dmem |-> sp_dmem, sp_imem |-> sp_imem,
        rom_be |-> rom_be, rom_size |-> rom_size]
Cpu == [reg |-> reg, hi |-> hi, lo |-> lo, cp0 |-> cp0, mem |-> Mem]

SetMem(m) ==
    /\ rdram' = m.rdram
    /\ sp_dmem' = m.sp_dmem
    /\ sp_imem' = m.sp_imem
    /\ rom_be' = m.rom_be
    /\ rom_size' = m.rom_size

\* a save state of emuhdrv0.py as json.load returns it: the keys it has
\* (has), and under them pc, the list registers and the string ram; hex_ok
\* tells that ram is a string bytearray.fromhex accepts, and ram is then the
\* bytes it stands for
SaveState(has, p, registers, hex_ok, ram) ==
    [has |-> has, pc |-> p, registers |-> registers, hex_ok |-> hex_ok, ram |-> ram]
NoState == SaveState({}, Zero32, <<>>, FALSE, NoRom)

NoCall ==
    [op |-> "init", ran |-> FALSE, pc |-> Zero32, instr |-> Zero32,
     branch_taken |-> FALSE, branch_target |-> Zero32, delay |-> <<>>,
     addr |-> Zero32, val |-> Zero32, ok |-> FALSE,
     rom |-> NoRom, data |-> NoRom, out |-> NoRom, n |-> 0, stale |-> FALSE,
     state |-> NoState]

\* MIPSCPU.__init__ and Memory.__init__
Fresh ==
    /\ reg = [i \in Regs |-> Zero32]
    /\ hi = Zero32
    /\ lo = Zero32
    /\ pc = PC_BOOT
    /\ cp0 = [i \in Regs |-> Zero32]
    /\ running = FALSE
    /\ instructions = 0
    /\ rdram = MemoryInit.rdram
    /\ sp_dmem = MemoryInit.sp_dmem
    /\ sp_imem = MemoryInit.sp_imem
    /\ rom_be = MemoryInit.rom_be
    /\ rom_size = MemoryInit.rom_size
    /\ loads = 0
    /\ resets = 0
    /\ writes = 0
    /\ emu_running = FALSE
    /\ threads = EmptyBag
    /\ ui = At("idle")
Init == Fresh /\ call = NoCall

(***************************************************************************)
(* Operations                                                              *)
(***************************************************************************)
\* Memory.load_rom(img)
LoadRom(img) ==
    /\ loads < MaxLoads
    /\ loads' = loads + 1
    /\ SetMem(load_rom(Mem, img))
    /\ call' = [NoCall EXCEPT !.op = "load_rom"]
    /\ UNCHANGED <<cpu_vars, resets, writes, emu_vars>>

\* Memory.load_boot_stub_to_sp_dmem()
LoadBootStub ==
    /\ SetMem(load_boot_stub_to_sp_dmem(Mem))
    /\ call' = [NoCall EXCEPT !.op = "load_boot_stub", !.ok = boot_stub_ok(Mem)]
    /\ UNCHANGED <<cpu_vars, loads, resets, writes, emu_vars>>

\* the assignments of MIPSCPU.reset
reset_cpu ==
    /\ reg' = [i \in Regs |-> IF i = 29 THEN SP_BOOT ELSE Zero32]
    /\ hi' = Zero32
    /\ lo' = Zero32
    /\ cp0' = [i \in Regs |-> Zero32]
    /\ pc' = PC_BOOT
    /\ instructions' = 0
\* MIPSCPU.reset()
Reset ==
    /\ resets < MaxResets
    /\ resets' = resets + 1
    /\ reset_cpu
    /\ call' = [NoCall EXCEPT !.op = "reset"]
    /\ UNCHANGED <<running, mem_vars, loads, writes, emu_vars>>

\* "self.cpu.running = b" (MIPSEMU.start, stop, step_once)
SetRunning(b) ==
    /\ running' = b
    /\ call' = [NoCall EXCEPT !.op = "set_running"]
    /\ UNCHANGED <<reg, hi, lo, pc, cp0, instructions, mem_vars, loads, resets, writes, emu_vars>>

\* the body of MIPSCPU.step from "instr = self._fetch(pc)" on, in a call made
\* by "name" whose local pc is pc0
commit_step(name, pc0, stale) ==
    /\ \E r \in {step(Cpu, pc0, instructions)} :
           /\ reg' = r.c.reg
           /\ hi' = r.c.hi
           /\ lo' = r.c.lo
           /\ cp0' = r.c.cp0
           /\ SetMem(r.c.mem)
           /\ pc' = r.pc
           /\ instructions' = r.instructions
           /\ call' = [NoCall EXCEPT !.op = name, !.ran = TRUE, !.pc = pc0,
                                     !.instr = r.instr,
                                     !.branch_taken = r.branch_taken,
                                     !.branch_target = r.branch_target,
                                     !.delay = r.delay, !.stale = stale]
\* the body of MIPSCPU.step past its idle guard, run without interruption
run_step(name) ==
    /\ instructions < MaxSteps
    /\ commit_step(name, pc, FALSE)
\* MIPSCPU.step()
Step ==
    IF is_idle(running)
    THEN /\ call' = [NoCall EXCEPT !.op = "step", !.pc = pc]
         /\ UNCHANGED <<cpu_vars, mem_vars, loads, resets, writes, emu_vars>>
    ELSE /\ run_step("step")
         /\ UNCHANGED <<running, loads, resets, writes, emu_vars>>

Next ==
    \/ \E img \in Images : LoadRom(img)
    \/ LoadBootStub
    \/ Reset
    \/ \E b \in BOOLEAN : SetRunning(b)
    \/ Step

Spec == Init /\ [][Next]_vars

(***************************************************************************)
(* The Memory interface on its own: byte, half and word writes at region   *)
(* edges, image loads and the boot-stub copy                               *)
(***************************************************************************)
\* virtual addresses at and around the edges of the regions
EdgeAddrs ==
    { <<0, 0>>,                  \* work RAM, first byte
      <<127, 65533>>,            \* 0x007FFFFD: work RAM, last three bytes
      <<128, 0>>,                \* 0x00800000: first byte after work RAM
      <<1023, 65535>>,           \* 0x03FFFFFF: one byte below scratch A
      <<41984, 0>>,              \* 0xA4000000: scratch A through KSEG1
      <<1024, 4094>>,            \* 0x04000FFE: last two bytes of scratch A
      <<1024, 8189>>,            \* 0x04001FFD: last three bytes of scratch B
      <<1024, 8192>>,            \* 0x04002000: first byte after scratch B
      <<4095, 65533>>,           \* 0x0FFFFFFD: three bytes below the cartridge
      <<4096, 0>>,               \* 0x10000000: cartridge, first byte
      <<8128, 0>>,               \* 0x1FC00000: first byte after the cartridge
      <<65535, 65535>> }         \* 0xFFFFFFFF: physical 0x1FFFFFFF, wraps to 0
WriteAddrs ==
    { <<0, 0>>, <<127, 65533>>, <<41984, 0>>, <<1024, 4094>>, <<1024, 8189>>,
      <<4095, 65533>>, <<4096, 0>>, <<1024, 8192>> }
WriteVals == { <<4660, 22136>>, <<43981, 239>> }     \* 0x12345678, 0xABCD00EF
MemImages == { ImageOf(STUB_END, ProgStores), ImageOf(ShortLen, ProgStores) }

\* Memory.write_u8(a, v)
WriteU8(a, v) ==
    /\ writes < MaxWrites
    /\ writes' = writes + 1
    /\ SetMem(write_u8(Mem, a, v))
    /\ call' = [NoCall EXCEPT !.op = "write_u8", !.addr = a, !.val = v]
    /\ UNCHANGED <<cpu_vars, loads, resets, emu_vars>>

\* Memory.write_u16(a, v)
WriteU16(a, v) ==
    /\ writes < MaxWrites
    /\ writes' = writes + 1
    /\ SetMem(write_u16(Mem, a, v))
    /\ call' = [NoCall EXCEPT !.op = "write_u16", !.addr = a, !.val = v]
    /\ UNCHANGED <<cpu_vars, loads, resets, emu_vars>>

\* Memory.write_u32(a, v)
WriteU32(a, v) ==
    /\ writes < MaxWrites
    /\ writes' = writes + 1
    /\ SetMem(write_u32(Mem, a, v))
    /\ call' = [NoCall EXCEPT !.op = "write_u32", !.addr = a, !.val = v]
    /\ UNCHANGED <<cpu_vars, loads, resets, emu_vars>>

NextMem ==
    \/ \E a \in WriteAddrs, v \in WriteVals : WriteU8(a, v)
    \/ \E a \in WriteAddrs, v \in WriteVals : WriteU16(a, v)
    \/ \E a \in WriteAddrs, v \in WriteVals : WriteU32(a, v)
    \/ \E img \in MemImages : LoadRom(img)
    \/ LoadBootStub

SpecMem == Init /\ [][NextMem]_vars

(***************************************************************************)
(* class MIPSEMU: load_rom, start, stop, step_once and the steps of        *)
(* emu_loop.  A file is the bytes object Path(path).read_bytes() returns.  *)
(***************************************************************************)
\* the bytes object of a sequence of bytes
FromSeq(s) ==
    Bytes(Len(s), [j \in {k \in 0..(Len(s) - 1) : s[k + 1] # 0} |-> s[j + 1]])
\* a bootable image in big-endian and in byte-swapped order, a file long
\* enough for the header but not for the boot stub, a file shorter than the
\* header, and an empty file
EmuFiles ==
    { ImageOf(STUB_END, ProgStores), swap16(ImageOf(STUB_END, ProgSlots)),
      ImageOf(ShortLen, ProgStores), FromSeq(<<128, 55, 18, 64, 1, 2, 3, 4>>),
      FromSeq(<<>>) }

MaxEmuLoads == 2

\* MIPSEMU.load_rom(path); call.ok tells whether it returned (TRUE) or left
\* through the exception ROMHeader raised (FALSE)
EmuLoadRom(data) ==
    /\ loads < MaxEmuLoads
    /\ loads' = loads + 1
    /\ \E be \in {normalize_rom_to_z64_be(data)} :
           /\ SetMem(load_boot_stub_to_sp_dmem(load_rom(Mem, be)))
           /\ IF header_ok(be)
              THEN reset_cpu
              ELSE UNCHANGED <<reg, hi, lo, cp0, pc, instructions>>
           /\ call' = [NoCall EXCEPT !.op = "emu_load_rom", !.data = data,
                                     !.out = be, !.ok = header_ok(be)]
    /\ UNCHANGED <<running, resets, writes, emu_vars>>

\* MIPSEMU.start()
EmuStart ==
    /\ running' = IF Truthy(rom_be) THEN TRUE ELSE running
    /\ emu_running' = IF Truthy(rom_be) THEN TRUE ELSE emu_running
    /\ call' = [NoCall EXCEPT !.op = "emu_start", !.ok = Truthy(rom_be)]
    /\ UNCHANGED <<reg, hi, lo, pc, cp0, instructions, mem_vars, loads, resets, writes,
                   threads, ui>>

\* MIPSEMU.stop()
EmuStop ==
    /\ running' = FALSE
    /\ emu_running' = FALSE
    /\ call' = [NoCall EXCEPT !.op = "emu_stop"]
    /\ UNCHANGED <<reg, hi, lo, pc, cp0, instructions, mem_vars, loads, resets, writes,
                   threads, ui>>

\* MIPSEMU.step_once(): running = True, step(), running = False
EmuStepOnce ==
    IF ~Truthy(rom_be)
    THEN /\ call' = [NoCall EXCEPT !.op = "emu_step_once"]
         /\ UNCHANGED <<cpu_vars, mem_vars, loads, resets, writes, emu_vars>>
    ELSE /\ run_step("emu_step_once")
         /\ running' = FALSE
         /\ UNCHANGED <<loads, resets, writes, emu_vars>>

\* one turn of MIPSEMU.emu_loop: "while self.running and self.cpu.running:
\* self.cpu.step()"
EmuLoopStep ==
    /\ emu_running /\ running
    /\ run_step("step")
    /\ UNCHANGED <<running, loads, resets, writes, emu_vars>>

NextEmu ==
    \/ \E data \in EmuFiles : EmuLoadRom(data)
    \/ EmuStart
    \/ EmuStop
    \/ EmuStepOnce
    \/ EmuLoopStep

SpecEmu == Init /\ [][NextEmu]_vars

(***************************************************************************)
(* class MIPSEMU with its threads.  The UI thread runs one command at a    *)
(* time (Tk's main loop); every start() adds a thread running emu_loop.    *)
(* Threads switch between bytecodes.  The switch points kept here are the  *)
(* ones between statements of MIPSEMU's methods and, inside MIPSCPU.step,  *)
(* the one after "pc = self.pc" (line 243): what follows it in step runs   *)
(* without interruption, so every behaviour here is a schedule of the      *)
(* program, and the program has more.                                      *)
(*   positions of a thread: test (at "while ..."), enter (calling step),   *)
(*   in_step (past line 243); a thread that leaves the loop is gone        *)
(*   positions of the UI thread: idle, load_reset, in_step                 *)
(***************************************************************************)
\* a bootable image and an empty file
ThreadFiles == { ImageOf(STUB_END, ProgStores), FromSeq(<<>>) }

MaxThreadSteps == 1

MaxThreadLoads == 1

\* the number of emu_loop threads alive, and of execution contexts past
\* line 243 of step
AliveThreads == BagCardinality(threads)
InStep ==
    AliveThreads - CopiesIn(At("test"), threads) - CopiesIn(At("enter"), threads)
        + (IF ui.at = "in_step" THEN 1 ELSE 0)
\* thread c goes on as context d
Move(c, d) == threads' = (threads (-) SetToBag({c})) (+) SetToBag({d})
MarkStale(c) == IF c.at = "in_step" THEN [c EXCEPT !.stale = TRUE] ELSE c

\* MIPSEMU.load_rom up to ROMHeader(be): lines 577-582
UiLoadRom(data) ==
    /\ ui.at = "idle"
    /\ loads < MaxThreadLoads
    /\ loads' = loads + 1
    /\ \E be \in {normalize_rom_to_z64_be(data)} :
           /\ SetMem(load_boot_stub_to_sp_dmem(load_rom(Mem, be)))
           /\ ui' = IF header_ok(be) THEN At("load_reset") ELSE At("idle")
           /\ call' = [NoCall EXCEPT !.op = "emu_load_rom", !.data = data,
                                     !.out = be, !.ok = header_ok(be)]
    /\ UNCHANGED <<cpu_vars, resets, writes, emu_running, threads>>

\* MIPSEMU.load_rom, "self.cpu.reset()": line 583; a step past line 243 now
\* holds a pc read before the reset
UiLoadReset ==
    /\ ui.at = "load_reset"
    /\ reset_cpu
    /\ threads' = BagOfAll(MarkStale, threads)
    /\ ui' = At("idle")
    /\ call' = [NoCall EXCEPT !.op = "reset"]
    /\ UNCHANGED <<running, mem_vars, loads, resets, writes, emu_running>>

\* MIPSEMU.start()
UiStart ==
    /\ ui.at = "idle"
    /\ IF ~Truthy(rom_be)
       THEN UNCHANGED <<running, emu_running, threads>>
       ELSE /\ AliveThreads < MaxThreads
            /\ threads' = threads (+) SetToBag({At("test")})
            /\ emu_running' = TRUE
            /\ running' = TRUE
    /\ call' = [NoCall EXCEPT !.op = "emu_start", !.ok = Truthy(rom_be)]
    /\ UNCHANGED <<reg, hi, lo, pc, cp0, instructions, mem_vars, loads, resets, writes, ui>>

\* MIPSEMU.stop()
UiStop ==
    /\ ui.at = "idle"
    /\ emu_running' = FALSE
    /\ running' = FALSE
    /\ call' = [NoCall EXCEPT !.op = "emu_stop"]
    /\ UNCHANGED <<reg, hi, lo, pc, cp0, instructions, mem_vars, loads, resets, writes,
                   threads, ui>>

\* MIPSCPU.step up to "pc = self.pc" in a context that returns to "back" when
\* the step is idle: the idle guard, then the read of pc
enter_step(back) ==
    IF is_idle(running)
    THEN At(back)
    ELSE Context("in_step", pc, FALSE)

\* MIPSEMU.step_once() up to line 243 of the step it calls:
\* "self.cpu.running = True", then the guard and "pc = self.pc"
UiStepOnce ==
    /\ ui.at = "idle"
    /\ IF ~Truthy(rom_be)
       THEN UNCHANGED <<running, ui>>
       ELSE /\ instructions < MaxThreadSteps
            /\ running' = TRUE
            /\ ui' = Context("in_step", pc, FALSE)
    /\ call' = [NoCall EXCEPT !.op = "emu_step_once", !.ok = Truthy(rom_be)]
    /\ UNCHANGED <<reg, hi, lo, pc, cp0, instructions, mem_vars, loads, resets, writes,
                   emu_running, threads>>

\* step_once: the rest of "self.cpu.step()", then "self.cpu.running = False"
UiStepCommit ==
    /\ ui.at = "in_step"
    /\ commit_step("step", ui.pc0, ui.stale)
    /\ running' = FALSE
    /\ ui' = At("idle")
    /\ UNCHANGED <<loads, resets, writes, emu_running, threads>>

\* emu_loop, thread c: "while self.running and self.cpu.running"
ThreadTest(c) ==
    /\ c.at = "test"
    /\ IF emu_running /\ running
       THEN Move(c, At("enter"))
       ELSE threads' = threads (-) SetToBag({c})
    /\ call' = [NoCall EXCEPT !.op = "emu_loop"]
    /\ UNCHANGED <<cpu_vars, mem_vars, loads, resets, writes, emu_running, ui>>

\* emu_loop, thread c: "self.cpu.step()" up to line 243; an idle step
\* returns to the sleep and the next test
ThreadEnter(c) ==
    /\ c.at = "enter"
    /\ is_idle(running) \/ instructions < MaxThreadSteps
    /\ Move(c, enter_step("test"))
    /\ call' = [NoCall EXCEPT !.op = "step", !.pc = pc]
    /\ UNCHANGED <<cpu_vars, mem_vars, loads, resets, writes, emu_running, ui>>

\* emu_loop, thread c: the rest of "self.cpu.step()", then the sleep
ThreadCommit(c) ==
    /\ c.at = "in_step"
    /\ commit_step("step", c.pc0, c.stale)
    /\ Move(c, At("test"))
    /\ UNCHANGED <<running, loads, resets, writes, emu_running, ui>>

\* what a ThreadCommit step does to the bag of threads: some thread leaves
\* the step it was in
ThreadLeavesStep ==
    \E c \in BagToSet(threads) : c.at = "in_step" /\ Move(c, At("test"))

NextThreads ==
    \/ \E data \in ThreadFiles : UiLoadRom(data)
    \/ UiLoadReset
    \/ UiStart
    \/ UiStop
    \/ UiStepOnce
    \/ UiStepCommit
    \/ \E c \in BagToSet(threads) : ThreadTest(c)
    \/ \E c \in BagToSet(threads) : ThreadEnter(c)
    \/ \E c \in BagToSet(threads) : ThreadCommit(c)

\* the emulator as constructed, or after load_rom of a bootable image
InitThreads ==
    \/ Init
    \/ /\ \E m \in {load_boot_stub_to_sp_dmem(load_rom(MemoryInit, ImageOf(STUB_END, ProgStores)))} :
              /\ rdram = m.rdram /\ sp_dmem = m.sp_dmem /\ sp_imem = m.sp_imem
              /\ rom_be = m.rom_be /\ rom_size = m.rom_size
       /\ reg = [i \in Regs |-> IF i = 29 THEN SP_BOOT ELSE Zero32]
       /\ hi = Zero32 /\ lo = Zero32 /\ cp0 = [i \in Regs |-> Zero32]
       /\ pc = PC_BOOT /\ instructions = 0 /\ running = FALSE
       /\ loads = 0 /\ resets = 0 /\ writes = 0
       /\ emu_running = FALSE
       /\ threads = EmptyBag
       /\ ui = At("idle")
       /\ call = [NoCall EXCEPT !.op = "reset"]

\* the operating system runs every started thread again and again: a thread
\* at the loop test, at the call of step or inside step gets its turn
SpecThreads ==
    /\ InitThreads /\ [][NextThreads]_vars
    /\ WF_vars(\E c \in BagToSet(threads) : ThreadTest(c))
    /\ WF_vars(\E c \in BagToSet(threads) : ThreadEnter(c))
    /\ WF_threads(ThreadLeavesStep)

(***************************************************************************)
(* emuhdrv0.py, MIPSEMU.load_state: pc is cpu.pc, reg is cpu.registers,    *)
(* rdram is memory.rdram; call.out is the bytearray load_state built       *)
(***************************************************************************)
MaxStateLoads == 2

\* register lists of 32 and of 31 entries, a work RAM of 8 MiB and one of 16
\* bytes
StateRegisters ==
    { [i \in 1..32 |-> IF i = 30 THEN <<0, 4660>> ELSE Zero32],
      [i \in 1..31 |-> IF i = 5 THEN <<0, 22136>> ELSE Zero32] }
StateRams ==
    { Bytes(RDRAM_END + 1, (0 :> 171)), Bytes(16, (3 :> 205)) }
\* the save states read: every set of keys, with a ram string that is or
\* is not hexadecimal
StateFiles ==
    { SaveState(has, <<32768, 256>>, r, h, m) :
          has \in SUBSET {"pc", "registers", "ram"},
          r \in StateRegisters, h \in BOOLEAN, m \in StateRams }

\* the three assignments of load_state in their order; each raises, and ends
\* the call, when its key is missing (KeyError) or ram is no hex string
\* (ValueError)
LoadState(state) ==
    /\ loads < MaxStateLoads
    /\ loads' = loads + 1
    /\ pc' = IF "pc" \in state.has THEN state.pc ELSE pc
    /\ reg' = IF {"pc", "registers"} \subseteq state.has
              THEN [i \in 0..(Len(state.registers) - 1) |-> state.registers[i + 1]]
              ELSE reg
    /\ rdram' = IF state.has = {"pc", "registers", "ram"} /\ state.hex_ok
                THEN state.ram.data ELSE rdram
    /\ call' = [NoCall EXCEPT !.op = "load_state", !.state = state,
                              !.ok = (state.has = {"pc", "registers", "ram"}
                                        /\ state.hex_ok),
                              !.out = IF state.has = {"pc", "registers", "ram"}
                                         /\ state.hex_ok
                                      THEN state.ram ELSE NoRom]
    /\ UNCHANGED <<hi, lo, cp0, running, instructions, sp_dmem, sp_imem, rom_be,
                   rom_size, resets, writes, emu_vars>>

NextState == \E state \in StateFiles : LoadState(state)

SpecState == Init /\ [][NextState]_vars

(***************************************************************************)
(* normalize_rom_to_z64_be on its own: the input is drawn at the start,    *)
(* and each call is made on the result of the call before                  *)
(***************************************************************************)
\* the four magics as byte sequences, one unknown magic, and inputs shorter
\* than a magic
NormHeads ==
    { <<128, 55, 18, 64>>, <<64, 18, 55, 128>>, <<55, 128, 64, 18>>, <<18, 64, 128, 55>> }
NormTails ==
    { <<>>, <<1>>, <<1, 2>>, <<1, 2, 3>>, <<1, 2, 3, 4>>, <<1, 2, 3, 4, 5>>,
      <<1, 2, 3, 4, 5, 6>>, <<1, 2, 3, 4, 5, 6, 7>>, <<0, 9>>, <<9, 0, 0>>,
      <<55, 128, 64, 18>>, <<64, 18, 55, 128, 7>> }
NormInputs ==
    {FromSeq(h \o tl) : h \in NormHeads, tl \in NormTails}
        \cup {FromSeq(<<>>), FromSeq(<<64>>), FromSeq(<<64, 18, 55>>)}

MaxNormalize == 2

InitNorm ==
    /\ Fresh
    /\ \E x \in NormInputs :
           call = [NoCall EXCEPT !.op = "input", !.rom = x, !.out = x]

\* be = normalize_rom_to_z64_be(data), data being the result before
Normalize ==
    /\ call.op \in {"input", "normalize"}
    /\ call.n < MaxNormalize
    /\ call' = [call EXCEPT !.op = "normalize", !.data = call.out,
                            !.out = normalize_rom_to_z64_be(call.out),
                            !.n = call.n + 1]
    /\ UNCHANGED <<cpu_vars, mem_vars, loads, resets, writes, emu_vars>>

NextNorm == Normalize

SpecNorm == InitNorm /\ [][NextNorm]_vars

(***************************************************************************)
(* Properties                                                              *)
(***************************************************************************)
\* the fields of the instruction a running step fetches at pc
Fetched == read_u32(Mem, pc)
OpOf(w) == bits(w, 26, 31)
RsOf(w) == bits(w, 21, 25)
RtOf(w) == bits(w, 16, 20)
RdOf(w) == bits(w, 11, 15)
FnOf(w) == bits(w, 0, 5)
SimmOf(w) == sext16(bits(w, 0, 15))
\* the transition is a call of step made while running / while idle
StepRan == call'.op = "step" /\ call'.ran
PcPlus4 == Add32(pc, <<0, 4>>)

\* a physical address of work RAM, scratch A or scratch B
Writable(phys) ==
    \/ 0 <= phys /\ phys <= RDRAM_END
    \/ DMEM_BASE <= phys /\ phys <= IMEM_END
\* a physical address of the cartridge range
InCart(phys) == CART_BASE <= phys /\ phys <= CART_END
\* the n bytes at a, a+1, ... all lie in writable regions / outside every region
AllWritable(a, n) == \A k \in 0..(n - 1) : Writable(virt_to_phys(Plus(a, k)))
AllUnmapped(a, n) ==
    \A k \in 0..(n - 1) :
        ~Writable(virt_to_phys(Plus(a, k))) /\ ~InCart(virt_to_phys(Plus(a, k)))

\* C1: general register 0 holds 0 in every reachable state, and reads as 0,
\* whatever instructions (among them those with destination field 0) ran.
C1_RegisterZero == reg[0] = Zero32 /\ read_reg(Cpu, 0) = Zero32
\* a delay-slot LUI r0, 0x1234 and an LW r0 of a non-zero word have executed
C1_Witness ==
    /\ call.op = "step" /\ call.ran
    /\ \/ call.delay = <<IType(15, 0, 0, 4660)>>
       \/ /\ call.instr = IType(35, 29, 0, 57424)
          /\ read_u32(Mem, Add32(reg[29], sext16(57424))) # Zero32
    /\ reg[0] = Zero32

\* the register a taken branch links, 0 when it links none
LinkReg(w) ==
    IF OpOf(w) = 3 THEN 31
    ELSE IF OpOf(w) = 0 /\ FnOf(w) = 9 THEN (IF RdOf(w) # 0 THEN RdOf(w) ELSE 31)
    ELSE IF OpOf(w) = 1 /\ RtOf(w) \in {16, 17} THEN 31
    ELSE 0
\* the registers once a taken branch w at pc has written its link
RegAfterLink(w) ==
    IF LinkReg(w) = 0 THEN reg ELSE [reg EXCEPT ![LinkReg(w)] = PcPlus4]
\* the target of the taken branch or jump w at pc; JR and JALR read rs after
\* the link is written
TargetOf(w) ==
    IF OpOf(w) \in {2, 3} THEN abs_target(PcPlus4, bits(w, 0, 25))
    ELSE IF OpOf(w) = 0
    THEN (IF RsOf(w) = 0 THEN Zero32 ELSE RegAfterLink(w)[RsOf(w)])
    ELSE rel_target(PcPlus4, SimmOf(w))

\* C2: a step that takes a branch or jump at P hands exactly one word to the
\* delay slot, the word at P + 4, and ends with pc at the branch target; a
\* delay-slot SW to four writable bytes at D leaves the stored register at D;
\* a delay-slot ADDU rd, rs, rt adds once.
C2_DelaySlotOnce ==
    [][ (StepRan /\ call'.branch_taken) =>
          LET d == read_u32(Mem, PcPlus4)
              mid == RegAfterLink(Fetched)
              rv(i) == IF i = 0 THEN Zero32 ELSE mid[i]
              D == Add32(rv(RsOf(d)), SimmOf(d))
          IN  /\ call'.delay = <<d>>
              /\ pc' = TargetOf(Fetched)
              /\ pc' = call'.branch_target
              /\ (OpOf(d) = 43 /\ AllWritable(D, 4)) =>
                     read_u32(Mem', D) = rv(RtOf(d))
              /\ (OpOf(d) = 0 /\ FnOf(d) = 33 /\ RdOf(d) # 0) =>
                     reg'[RdOf(d)] = Add32(rv(RsOf(d)), rv(RtOf(d))) ]_vars
\* JAL with SW r31, 4(r29) in its slot has run: the link is stored in scratch B
\* and pc is the jump target
C2_Witness ==
    /\ call.op = "step" /\ call.ran /\ call.branch_taken
    /\ call.instr = JType(3, TargetField(80))
    /\ call.delay = <<IType(43, 29, 31, 4)>>
    /\ reg[29] = SP_BOOT
    /\ read_u32(Mem, Add32(SP_BOOT, <<0, 4>>)) = Add32(call.pc, <<0, 4>>)
    /\ pc = <<41984, 80>>

\* the delay-slot forms _exec_delay_slot executes
SlotForm(d) ==
    \/ OpOf(d) = 0 /\ FnOf(d) \in {33, 37}
    \/ OpOf(d) \in {13, 15, 35, 43}
\* C3: when the delay-slot word of a taken branch is none of ADDU, OR, ORI,
\* LUI, LW, SW, the step leaves memory, HI, LO and the control registers as
\* they were, the general registers as the branch itself left them (its link
\* written, nothing else), and pc at the branch's own target.
C3_OtherSlotIsNop ==
    [][ (StepRan /\ call'.branch_taken /\ ~SlotForm(read_u32(Mem, PcPlus4))) =>
          /\ reg' = RegAfterLink(Fetched)
          /\ UNCHANGED <<hi, lo, cp0, rdram, sp_dmem, sp_imem, rom_be, rom_size>>
          /\ pc' = TargetOf(Fetched) ]_vars
\* a taken J with ADDIU r7, r29, 4 in its slot, and a taken BEQ with a JAL in
\* its slot, have run with r29 set
C3_Witness ==
    /\ call.op = "step" /\ call.ran /\ call.branch_taken
    /\ call.delay \in {<<IType(9, 29, 7, 4)>>, <<JType(3, 0)>>}
    /\ reg[29] = SP_BOOT
    /\ reg[7] = Zero32 /\ reg[31] = Zero32

\* the instruction table of step
InTable(w) ==
    \/ OpOf(w) \in (2..15) \cup {32, 33, 35, 36, 37, 40, 41, 43}
    \/ OpOf(w) = 0 /\ FnOf(w) \in {0, 2, 3, 4, 6, 7, 8, 9, 16, 17, 18, 19, 24, 25,
                                   26, 27, 33, 35, 36, 37, 38, 39, 42, 43}
    \/ OpOf(w) = 1 /\ RtOf(w) \in {0, 1, 16, 17}
    \/ OpOf(w) = 16 /\ RsOf(w) \in {0, 4}
\* C4: a running step on a word outside the instruction table changes no
\* register, HI, LO, control register or memory byte, moves pc to pc + 4
\* (mod 2^32) and adds one to the instruction counter.
C4_UnknownIsNop ==
    [][ (StepRan /\ ~InTable(Fetched)) =>
          /\ UNCHANGED <<reg, hi, lo, cp0, rdram, sp_dmem, sp_imem, rom_be, rom_size>>
          /\ pc' = PcPlus4
          /\ instructions' = instructions + 1 ]_vars
\* a COP0 word with rs = 0x10 and a CACHE word have run with r29, HI and LO set
C4_Witness ==
    /\ call.op = "step" /\ call.ran
    /\ call.instr \in {IType(16, 16, 29, 59394), IType(47, 29, 29, 8)}
    /\ ~InTable(call.instr)
    /\ reg[29] = SP_BOOT /\ hi # Zero32 /\ lo # Zero32

\* C5: a call of step while the running flag is false changes no field of
\* the CPU and no byte of memory.
C5_IdleStepIsNop ==
    [][ (call'.op = "step" /\ ~running) =>
          UNCHANGED <<reg, hi, lo, pc, cp0, running, instructions,
                      rdram, sp_dmem, sp_imem, rom_be, rom_size>> ]_vars
\* step was called idle with a program at pc in scratch A
C5_Witness ==
    /\ call.op = "step" /\ ~call.ran /\ ~running
    /\ read_u32(Mem, pc) # Zero32
    /\ instructions > 0

\* C6: a running step adds exactly one to the instruction counter, whatever
\* it executes; reset sets it to 0; no other call changes it.
C6_CountsOnce ==
    [][ /\ StepRan => instructions' = instructions + 1
        /\ call'.op = "reset" => instructions' = 0
        /\ ~StepRan /\ call'.op # "reset" => instructions' = instructions ]_vars
\* a taken branch whose delay slot executed a store was counted as one
C6_Witness ==
    /\ call.op = "step" /\ call.ran /\ call.branch_taken
    /\ call.delay = <<IType(43, 29, 29, 0)>>
    /\ read_u32(Mem, SP_BOOT) = SP_BOOT
    /\ instructions = 1

\* C7: SPECIAL function 0x20 (ADD) leaves rd = (rs + rt) mod 2^32 as ADDU
\* does, and 0x22 (SUB) leaves rd = (rs - rt) mod 2^32 as SUBU does.
C7_AddIsAddu ==
    [][ (StepRan /\ OpOf(Fetched) = 0 /\ RdOf(Fetched) # 0) =>
          LET vs == read_reg(Cpu, RsOf(Fetched))
              vt == read_reg(Cpu, RtOf(Fetched))
          IN  /\ FnOf(Fetched) \in {32, 33} => reg'[RdOf(Fetched)] = Add32(vs, vt)
              /\ FnOf(Fetched) \in {34, 35} => reg'[RdOf(Fetched)] = Sub32(vs, vt) ]_vars

\* C8: DIV or DIVU with a zero divisor register leaves HI and LO as they
\* were, moves pc to pc + 4 and adds one to the instruction counter.
C8_DivByZero ==
    [][ (StepRan /\ OpOf(Fetched) = 0 /\ FnOf(Fetched) \in {26, 27}
              /\ read_reg(Cpu, RtOf(Fetched)) = Zero32) =>
          /\ hi' = hi /\ lo' = lo
          /\ pc' = PcPlus4
          /\ instructions' = instructions + 1 ]_vars
\* DIV r29, r0 and DIVU r29, r0 have run with HI and LO non-zero
C8_Witness ==
    /\ call.op = "step" /\ call.ran
    /\ call.instr \in {RType(29, 0, 0, 0, 26), RType(29, 0, 0, 0, 27)}
    /\ reg[29] = SP_BOOT
    /\ hi # Zero32 /\ lo # Zero32

\* C9 as claimed: after write_u32(a, v), read_u32(a) is v for every a whose
\* physical address lies in work RAM, scratch A or scratch B.
C9_RoundTripAnyMapped ==
    (call.op = "write_u32" /\ Writable(virt_to_phys(call.addr))) =>
        read_u32(Mem, call.addr) = call.val
\* C9 amended: after write_u32(a, v), read_u32(a) is v for every a whose four
\* byte addresses a .. a+3 all lie in work RAM, scratch A or scratch B.
C9_RoundTrip ==
    (call.op = "write_u32" /\ AllWritable(call.addr, 4)) =>
        read_u32(Mem, call.addr) = call.val
\* a word was written across the end of scratch A into scratch B
C9_Witness ==
    /\ call.op = "write_u32"
    /\ call.addr = <<1024, 4094>>
    /\ call.val = <<4660, 22136>>
    /\ AllWritable(call.addr, 4)

\* C10 as claimed: read_u8, read_u16 and read_u32 return 0 at every address
\* whose physical address is outside work RAM, scratch A, scratch B and the
\* cartridge range.
C10_UnmappedReadsZeroAnyWidth ==
    \A a \in EdgeAddrs :
        AllUnmapped(a, 1) =>
            read_u8(Mem, a) = 0 /\ read_u16(Mem, a) = 0 /\ read_u32(Mem, a) = Zero32
\* C10 amended: read_u8 returns 0 at every such address; read_u16 and
\* read_u32 return 0 when every byte address of the access is such an address.
C10_UnmappedReadsZero ==
    \A a \in EdgeAddrs :
        /\ AllUnmapped(a, 1) => read_u8(Mem, a) = 0
        /\ AllUnmapped(a, 2) => read_u16(Mem, a) = 0
        /\ AllUnmapped(a, 4) => read_u32(Mem, a) = Zero32
\* a non-zero word was written to an unmapped address while work RAM, scratch
\* memory and the cartridge hold non-zero bytes
C10_Witness ==
    /\ call.op = "write_u32"
    /\ call.addr = <<1024, 8192>>
    /\ call.val # Zero32
    /\ AllUnmapped(call.addr, 4)
    /\ sp_imem # EmptyBytes
    /\ Truthy(rom_be)

\* addresses of the cartridge range: first bytes, the program, the image's
\* last byte and the byte after it, the range's last byte
CartProbes ==
    { <<45056, 0>>, <<45056, 3>>, <<45056, 64>>, <<45056, 67>>, <<45056, 4095>>,
      <<45056, 4096>>, <<4096, 0>>, <<8127, 65535>> }
CartOffset(a) == virt_to_phys(a) - CART_BASE
\* C11: no step and no store changes the mapped image (only load_rom replaces
\* it): every cartridge read inside the image returns the byte loaded, and a
\* cartridge read at an offset at or past the image length returns 0.
C11_ImageReadOnly ==
    [][ /\ call'.op # "load_rom" => (rom_be' = rom_be /\ rom_size' = rom_size)
        /\ \A a \in CartProbes :
               read_u8(Mem', a) =
                   IF Truthy(rom_be') /\ CartOffset(a) < rom_be'.len
                   THEN Get(rom_be'.data, CartOffset(a)) ELSE 0 ]_vars
\* JAL with SW r31, 64(r1) in its slot has stored onto the image's program,
\* after SW, SB and SH onto the image, and the image still reads as loaded
C11_Witness ==
    /\ call.op = "step" /\ call.ran
    /\ call.delay = <<IType(43, 1, 31, 64)>>
    /\ reg[1] = <<45056, 0>> /\ reg[31] # Zero32
    /\ reg[2] = Magic /\ reg[3] = Zero32
    /\ read_u32(Mem, <<45056, 64>>) = ProgCart[1]

\* the addresses 0x00000000, 0x80000000 and 0xA0000000 + (a & 0x1FFFFFFF)
Aliases(a) == { <<(a[1] % 8192) + 8192 * k, a[2]>> : k \in {0, 4, 5} }
\* C12: addresses that agree in their low 29 bits are aliases: read_u8 returns
\* the same byte through each of them in every reachable memory state, and a
\* byte written by write_u8 to work RAM or scratch memory through one of them
\* is read back through the others.
C12_Aliases ==
    /\ \A a \in EdgeAddrs : \A b \in Aliases(a) : read_u8(Mem, a) = read_u8(Mem, b)
    /\ (call.op = "write_u8" /\ Writable(virt_to_phys(call.addr))) =>
           \A b \in Aliases(call.addr) : read_u8(Mem, b) = call.val[2] % 256
\* a byte written through 0xA4000000 is read through 0x04000000 and 0x84000000
C12_Witness ==
    /\ call.op = "write_u8"
    /\ call.addr = <<41984, 0>>
    /\ read_u8(Mem, <<1024, 0>>) = call.val[2] % 256
    /\ read_u8(Mem, <<33792, 0>>) # 0
    /\ rdram # EmptyBytes

\* the offsets of scratch A at which it or the image holds a non-zero byte,
\* and the ends of the two ranges; at every other offset both hold 0
StubOffsets(dmem, image) ==
    {i \in DOMAIN dmem \cup DOMAIN image : i < STUB_END}
        \cup {0, STUB_START - 1, STUB_START, STUB_END - 1}
\* C13: with an image of at least 4096 bytes mapped, load_boot_stub_to_sp_dmem
\* returns True and leaves scratch A bytes 0x00..0x3F zero and byte i equal to
\* image byte i for i in 0x40..0xFFF, whatever scratch A held; scratch B, work
\* RAM and the image are unchanged.
C13_BootStubCopied ==
    [][ (call'.op = "load_boot_stub" /\ Truthy(rom_be) /\ rom_size >= STUB_END) =>
          /\ call'.ok
          /\ \A i \in StubOffsets(sp_dmem', rom_be.data) :
                 Get(sp_dmem', i) = IF i < STUB_START THEN 0 ELSE Get(rom_be.data, i)
          /\ UNCHANGED <<sp_imem, rdram, rom_be, rom_size>> ]_vars
\* the loader succeeded after a word written at 0x04000FFE (its last two bytes
\* are still in scratch B): scratch A now holds the image's bytes there and
\* zero at offset 0
C13_Witness ==
    /\ call.op = "load_boot_stub" /\ call.ok
    /\ Get(sp_imem, 0) # 0
    /\ Get(sp_dmem, 4094) = 0 /\ Get(sp_dmem, 0) = 0
    /\ Get(sp_dmem, STUB_START) = ByteOf(ProgStores[1], 3)

\* C14: with no image mapped, or one shorter than 4096 bytes,
\* load_boot_stub_to_sp_dmem returns False and changes no byte of memory.
C14_BootStubRefused ==
    [][ (call'.op = "load_boot_stub" /\ (~Truthy(rom_be) \/ rom_size < STUB_END)) =>
          /\ ~call'.ok
          /\ UNCHANGED <<rdram, sp_dmem, sp_imem, rom_be, rom_size>> ]_vars
\* the loader refused a 72-byte image while scratch A held written bytes
C14_Witness ==
    /\ call.op = "load_boot_stub" /\ ~call.ok
    /\ Truthy(rom_be) /\ rom_size = ShortLen
    /\ Get(sp_dmem, 0) # 0

\* C16: normalize_rom_to_z64_be is idempotent: a second call on the result of
\* the first returns that result, for inputs of every magic and length.
C16_Idempotent ==
    (call.op = "normalize" /\ call.n >= 2) => call.out = call.data
\* an input with magic 0x40123780 and a partial last group was swapped by the
\* first call, and normalized once more
C16_Witness ==
    /\ call.op = "normalize" /\ call.n = 2
    /\ magic_of(call.rom) = MAGIC_N64 /\ call.rom.len = 10
    /\ call.data # call.rom
    /\ magic_of(call.out) = MAGIC_Z64

\* the input is one C17 speaks of: magic 0x40123780 with a length that is a
\* multiple of 4, or magic 0x37804012
SwappedInput(x) ==
    /\ x.len >= 4
    /\ \/ magic_of(x) = MAGIC_N64 /\ x.len % 4 = 0
       \/ magic_of(x) = MAGIC_V64
\* C17 as claimed: on those inputs normalize(normalize(x)) == x.
C17_SelfInverse ==
    (call.op = "normalize" /\ call.n = 2 /\ SwappedInput(call.rom)) =>
        call.out = call.rom
\* C17 amended: on those inputs normalize(x) carries magic 0x80371240, so
\* normalize(normalize(x)) == normalize(x); x is recovered from normalize(x)
\* by the same swap done once more (4-byte group reversal for 0x40123780,
\* byte-pair swap for 0x37804012).
C17_SwapSelfInverse ==
    (call.op = "normalize" /\ SwappedInput(call.rom)) =>
        /\ magic_of(call.out) = MAGIC_Z64
        /\ call.n = 2 => call.out = call.data
        /\ magic_of(call.rom) = MAGIC_N64 => swap32(call.out) = call.rom
        /\ magic_of(call.rom) = MAGIC_V64 => swap16(call.out) = call.rom
\* an 8-byte input with magic 0x40123780 and an 11-byte input with magic
\* 0x37804012 were normalized twice and differ from the result
C17_Witness ==
    /\ call.op = "normalize" /\ call.n = 2
    /\ \/ magic_of(call.rom) = MAGIC_N64 /\ call.rom.len = 8
       \/ magic_of(call.rom) = MAGIC_V64 /\ call.rom.len = 11
    /\ call.out # call.rom

\* C18: for magic 0x40123780 and a length that is not a multiple of 4 the
\* output has the input's length, every complete 4-byte group is reversed and
\* the last 1 to 3 bytes are copied through in their order.
C18_PartialGroupKept ==
    (call.op = "normalize" /\ call.n = 1 /\ call.rom.len >= 4
         /\ magic_of(call.rom) = MAGIC_N64 /\ call.rom.len % 4 # 0) =>
        /\ call.out.len = call.rom.len
        /\ \A j \in 0..(call.rom.len - 1) :
               Get(call.out.data, j) =
                   IF j < call.rom.len - (call.rom.len % 4)
                   THEN Get(call.rom.data, (j - (j % 4)) + 3 - (j % 4))
                   ELSE Get(call.rom.data, j)

\* C15: MIPSEMU.load_rom on a file too short for the header (< 64 bytes) or
\* for the boot stub (< 4096 bytes) fails explicitly and leaves the mapped
\* image, scratch A, the registers, pc and the instruction counter as before.
C15_ShortLoadLeavesState ==
    [][ (call'.op = "emu_load_rom" /\ call'.data.len < STUB_END) =>
          /\ ~call'.ok
          /\ UNCHANGED <<rom_be, rom_size, sp_dmem, reg, hi, lo, cp0, pc, instructions>> ]_vars

\* the step runs a JAL or a JALR
IsLinkJump(w) == OpOf(w) = 3 \/ (OpOf(w) = 0 /\ FnOf(w) = 9)
\* the register a delay-slot word writes, 0 when it writes none
SlotDest(d) ==
    IF OpOf(d) = 0 /\ FnOf(d) \in {33, 37} THEN RdOf(d)
    ELSE IF OpOf(d) \in {13, 15, 35} THEN RtOf(d)
    ELSE 0
\* C20: a JAL at P leaves P + 4 in register 31, a JALR at P leaves P + 4 in
\* register rd, or in register 31 when its rd field is 0; the link is written
\* before the delay slot runs: a delay-slot SW of the link register to four
\* writable bytes stores P + 4, and the link stays unless the delay-slot word
\* writes the same register.
C20_LinkIsPcPlus4 ==
    [][ (StepRan /\ IsLinkJump(Fetched)) =>
          LET L == LinkReg(Fetched)
              d == read_u32(Mem, PcPlus4)
              mid == RegAfterLink(Fetched)
              D == Add32(IF RsOf(d) = 0 THEN Zero32 ELSE mid[RsOf(d)], SimmOf(d))
          IN  /\ OpOf(Fetched) = 3 => L = 31
              /\ OpOf(Fetched) = 0 => L = (IF RdOf(Fetched) = 0 THEN 31 ELSE RdOf(Fetched))
              /\ call'.branch_taken
              /\ SlotDest(d) # L => reg'[L] = PcPlus4
              /\ (OpOf(d) = 43 /\ RtOf(d) = L /\ AllWritable(D, 4)) =>
                     read_u32(Mem', D) = PcPlus4 ]_vars
\* JALR r5, r29 with SW r5, 8(r29) in its slot has run: r5 holds the address
\* after the JALR and the slot stored that same value
C20_Witness ==
    /\ call.op = "step" /\ call.ran
    /\ OpOf(call.instr) = 0 /\ FnOf(call.instr) = 9 /\ RdOf(call.instr) = 5
    /\ Len(call.delay) = 1
    /\ OpOf(call.delay[1]) = 43 /\ RtOf(call.delay[1]) = 5
    /\ reg[5] = Add32(call.pc, <<0, 4>>)
    /\ read_u32(Mem, Add32(reg[RsOf(call.delay[1])], SimmOf(call.delay[1]))) = reg[5]

\* C19: a reset leaves every CPU field at its default whatever the state
\* before: registers 0 except r29 = 0xA4001FF0, pc = 0xA4000040, HI = LO = 0,
\* the control registers 0, the instruction counter 0 and the running flag
\* off.
C19_ResetDefaults ==
    [][ call'.op = "reset" =>
          /\ reg' = [i \in Regs |-> IF i = 29 THEN SP_BOOT ELSE Zero32]
          /\ pc' = PC_BOOT
          /\ hi' = Zero32 /\ lo' = Zero32
          /\ cp0' = [i \in Regs |-> Zero32]
          /\ instructions' = 0
          /\ ~running' ]_vars

\* the value _read_reg(i) gives before the step
RegVal(i) == IF i = 0 THEN Zero32 ELSE reg[i]
\* C25: a signed DIV with a non-zero divisor leaves quotient and remainder
\* with (LO * rt + HI) mod 2^32 = rs and HI zero or of the sign of rs.
C25_DivRemainderSign ==
    [][ (StepRan /\ OpOf(Fetched) = 0 /\ FnOf(Fetched) = 26
           /\ RegVal(RtOf(Fetched)) # Zero32) =>
          /\ Add32(MulU64(lo', RegVal(RtOf(Fetched))).lo, hi') = RegVal(RsOf(Fetched))
          /\ (hi' = Zero32 \/ IsNeg32(hi') = IsNeg32(RegVal(RsOf(Fetched)))) ]_vars

\* C26: SLTI leaves 1 in rt exactly when rs as a signed word is below the
\* sign-extended immediate as a signed value, and 0 otherwise.
C26_SltiSigned ==
    [][ (StepRan /\ OpOf(Fetched) = 10 /\ RtOf(Fetched) # 0) =>
          reg'[RtOf(Fetched)] =
              (IF s32(RegVal(RsOf(Fetched))) < s32(SimmOf(Fetched))
               THEN One32 ELSE Zero32) ]_vars

\* the decision of the branch or jump w from the registers before the step
TakenOf(w) ==
    CASE OpOf(w) \in {2, 3} -> TRUE
      [] OpOf(w) = 0 -> FnOf(w) \in {8, 9}
      [] OpOf(w) = 1 /\ RtOf(w) \in {0, 16} -> s32(RegVal(RsOf(w))) < 0
      [] OpOf(w) = 1 /\ RtOf(w) \in {1, 17} -> s32(RegVal(RsOf(w))) >= 0
      [] OpOf(w) = 4 -> RegVal(RsOf(w)) = RegVal(RtOf(w))
      [] OpOf(w) = 5 -> RegVal(RsOf(w)) # RegVal(RtOf(w))
      [] OpOf(w) = 6 -> s32(RegVal(RsOf(w))) <= 0
      [] OpOf(w) = 7 -> s32(RegVal(RsOf(w))) > 0
      [] OTHER -> FALSE
\* the registers the branch or jump w reads
BranchReads(w) ==
    CASE OpOf(w) = 0 /\ FnOf(w) \in {8, 9} -> {RsOf(w)}
      [] OpOf(w) \in {1, 6, 7} -> {RsOf(w)}
      [] OpOf(w) \in {4, 5} -> {RsOf(w), RtOf(w)}
      [] OTHER -> {}
\* C27: when the delay-slot word of a branch taken on the registers before
\* the step writes a register that branch reads, the step is still taken and
\* ends with pc at the target computed from the values before the delay slot.
C27_TargetFixedBeforeSlot ==
    [][ (StepRan /\ TakenOf(Fetched)
           /\ SlotDest(read_u32(Mem, PcPlus4)) \in BranchReads(Fetched) \ {0}) =>
          /\ call'.branch_taken
          /\ call'.delay = <<read_u32(Mem, PcPlus4)>>
          /\ call'.branch_target = TargetOf(Fetched)
          /\ pc' = TargetOf(Fetched) ]_vars
\* BNE r2, r0 with OR r2, r0, r0 in its slot has run: r2 is 0 now, and pc is
\* the branch target all the same
C27_Witness ==
    /\ call.op = "step" /\ call.ran /\ call.branch_taken
    /\ call.instr = IType(5, 2, 0, 1)
    /\ call.delay = <<RType(0, 0, 2, 0, 37)>>
    /\ reg[2] = Zero32
    /\ pc = Add32(call.pc, <<0, 8>>)

\* an unsigned 32-bit value / a bytearray of n bytes, each in 0..255
IsWord32(w) == Len(w) = 2 /\ w[1] \in 0..65535 /\ w[2] \in 0..65535
IsByteArray(f, n) == \A i \in DOMAIN f : i \in 0..(n - 1) /\ f[i] \in 0..255
\* C28: pc, every general register, HI, LO and every control register is an
\* unsigned 32-bit value, and every byte of work RAM and of the two scratch
\* memories is in 0..255.
C28_ValuesInRange ==
    /\ IsWord32(pc) /\ IsWord32(hi) /\ IsWord32(lo)
    /\ \A i \in Regs : IsWord32(reg[i]) /\ IsWord32(cp0[i])
    /\ IsByteArray(rdram, RDRAM_END + 1)
    /\ IsByteArray(sp_dmem, DMEM_END - DMEM_BASE + 1)
    /\ IsByteArray(sp_imem, IMEM_END - IMEM_BASE + 1)
\* ADDU r3, r29, r1 has added 0xA4001FF0 and 0xFFFFFFF9: the sum is past
\* 2^32 and r3 holds its low 32 bits
C28_Witness ==
    /\ call.op = "step" /\ call.ran
    /\ call.instr = RType(29, 1, 3, 0, 33)
    /\ reg[29] = SP_BOOT /\ reg[1] = <<65535, 65529>>
    /\ reg[3] = <<41984, 8169>>

\* the session is stopped and no command is executing
Stopped == ~emu_running /\ ~running /\ ui.at = "idle"
\* C22: stop() leaves both flags off however often it is called; while the
\* session is stopped no context enters a step, and a step that completes
\* was in flight; and once stopped, every loop thread ends unless Start or
\* Step 1 turns a flag on again.
C22_StopPreventsNextStep ==
    /\ [][ call'.op = "emu_stop" => (~emu_running' /\ ~running') ]_vars
    /\ [][ (Stopped /\ call'.op \notin {"emu_start", "emu_step_once"}) =>
             /\ InStep' <= InStep
             /\ (call'.op = "step" /\ call'.ran) => InStep' = InStep - 1 ]_vars
    /\ (Stopped ~> (AliveThreads = 0 \/ emu_running \/ running))
\* a step that was in flight when stop() returned has completed, and its
\* thread is back at the loop test with both flags off
C22_Witness ==
    /\ call.op = "step" /\ call.ran
    /\ Stopped
    /\ threads = SetToBag({At("test")})

\* no image, or an empty one, is mapped
NoImage == rom_be.none \/ rom_be.len = 0
\* C24: with no image or an empty image mapped, Start and Step 1 change
\* neither running flag (flags that are off stay off), start no thread, run
\* no step, and leave pc, the registers and the instruction counter alone.
C24_NoImageNoStart ==
    [][ (call'.op \in {"emu_start", "emu_step_once"} /\ NoImage) =>
          /\ ~call'.ok
          /\ ui'.at = "idle"
          /\ UNCHANGED <<emu_running, running, threads, pc, reg, instructions>> ]_vars
\* Start was pressed with an empty image mapped: nothing runs
C24_Witness ==
    /\ call.op = "emu_start" /\ ~call.ok
    /\ ~rom_be.none /\ rom_be.len = 0
    /\ ~emu_running /\ ~running
    /\ AliveThreads = 0

\* C21: at most one emu_loop thread is alive, and at most one execution
\* context is inside step.
C21_OneContextSteps == AliveThreads <= 1 /\ InStep <= 1

\* C29: whenever no UI command is executing the two running flags agree, and
\* while the session flag is on a loop thread is alive.
C29_FlagsAgree ==
    ui.at = "idle" =>
        /\ emu_running = running
        /\ emu_running => AliveThreads >= 1

\* C30: a step that read pc before load_rom's reset does not decide pc or the
\* instruction counter after it.
C30_ResetNotLost ==
    [][ (call'.op = "step" /\ call'.ran /\ call'.stale) =>
          (pc' = pc /\ instructions' = instructions) ]_vars

\* a save state of the shape save_state writes: the three keys, 32
\* registers, and a hex string standing for 8 MiB
ValidShape(state) ==
    /\ state.has = {"pc", "registers", "ram"}
    /\ Len(state.registers) = Cardinality(Regs)
    /\ state.hex_ok
    /\ state.ram.len = RDRAM_END + 1
\* C23: load_state given a save state of invalid shape fails and leaves pc,
\* the registers and work RAM as they were.
C23_InvalidStateRejected ==
    [][ (call'.op = "load_state" /\ ~ValidShape(call'.state)) =>
          /\ ~call'.ok
          /\ UNCHANGED <<pc, reg, rdram>> ]_vars

====
